---- MODULE Spec2Model ----
(***************************************************************************)
(* The problem-ranking core of the NCR dashboard backend (package          *)
(* ranking): trigram / LCS / TF-IDF similarity, greedy founder-based       *)
(* clustering, centroid selection, RPN scoring, key-phrase summaries and   *)
(* the word cloud, together with the Service that runs them per request.   *)
(*                                                                         *)
(* A text is a sequence of runes; a rune is a one-token string.  float64   *)
(* quantities are fixed-point integers with SCALE units per 1.0, every     *)
(* division rounding down.                                                 *)
(***************************************************************************)
EXTENDS Integers, Sequences, FiniteSets, TLC

\* fixed-point unit: the integer that stands for the float64 value 1.0
SCALE == 10000

Max2(a, b) == IF a >= b THEN a ELSE b
Min2(a, b) == IF a <= b THEN a ELSE b

(***************************************************************************)
(* Runes: package unicode / strings as used by trigram.go                  *)
(***************************************************************************)
\* unicode.ToLower on the runes that have a lower-case form
lowerCase ==
  "A" :> "a" @@ "B" :> "b" @@ "C" :> "c" @@ "D" :> "d" @@ "E" :> "e" @@ "F" :> "f" @@
  "G" :> "g" @@ "H" :> "h" @@ "I" :> "i" @@ "J" :> "j" @@ "K" :> "k" @@ "L" :> "l" @@
  "M" :> "m" @@ "N" :> "n" @@ "O" :> "o" @@ "P" :> "p" @@ "Q" :> "q" @@ "R" :> "r" @@
  "S" :> "s" @@ "T" :> "t" @@ "U" :> "u" @@ "V" :> "v" @@ "W" :> "w" @@ "X" :> "x" @@
  "Y" :> "y" @@ "Z" :> "z" @@ "É" :> "é"

\* unicode.IsSpace
IsSpace(r) == r \in {" ", "\t", "\n"}
\* unicode.IsPrint: false for control runes and the zero-width space
IsPrint(r) == r \notin {"\t", "\n", "NUL", "ZWSP"}
\* number of bytes of the UTF-8 encoding of a rune
RuneBytes(r) == IF r \in {"é", "É"} THEN 2 ELSE IF r = "ZWSP" THEN 3 ELSE 1

ToLowerRune(r) == IF r \in DOMAIN lowerCase THEN lowerCase[r] ELSE r
\* strings.ToLower
ToLower(s) == [k \in 1..Len(s) |-> ToLowerRune(s[k])]

RECURSIVE ByteLen(_)
\* len(s) of a Go string: its length in bytes
ByteLen(s) == IF s = <<>> THEN 0 ELSE RuneBytes(Head(s)) + ByteLen(Tail(s))

RECURSIVE TrimLeft(_, _)
TrimLeft(s, cut) ==
  IF s # <<>> /\ Head(s) \in cut THEN TrimLeft(Tail(s), cut) ELSE s
RECURSIVE TrimRight(_, _)
TrimRight(s, cut) ==
  IF s # <<>> /\ s[Len(s)] \in cut THEN TrimRight(SubSeq(s, 1, Len(s) - 1), cut) ELSE s
\* strings.Trim(s, cutset)
Trim(s, cut) == TrimRight(TrimLeft(s, cut), cut)
\* strings.TrimSpace
TrimSpace(s) == Trim(s, {" ", "\t", "\n"})

RECURSIVE FieldsLoop(_, _, _, _)
FieldsLoop(s, i, cur, out) ==
  IF i > Len(s) THEN (IF cur = <<>> THEN out ELSE Append(out, cur))
  ELSE IF IsSpace(s[i])
       THEN FieldsLoop(s, i + 1, <<>>, IF cur = <<>> THEN out ELSE Append(out, cur))
       ELSE FieldsLoop(s, i + 1, Append(cur, s[i]), out)
\* strings.Fields: the maximal runs of non-space runes, in order
Fields(s) == FieldsLoop(s, 1, <<>>, <<>>)

RECURSIVE JoinLoop(_, _)
JoinLoop(ws, i) ==
  IF i > Len(ws) THEN <<>>
  ELSE IF i = 1 THEN ws[1] \o JoinLoop(ws, 2)
  ELSE <<" ">> \o ws[i] \o JoinLoop(ws, i + 1)
\* strings.Join(ws, " ")
Join(ws) == JoinLoop(ws, 1)

(***************************************************************************)
(* trigram.go                                                              *)
(***************************************************************************)
RECURSIVE nwLoop(_, _, _, _)
nwLoop(text, i, result, lastWasSpace) ==
  IF i > Len(text) THEN result
  ELSE IF IsSpace(text[i])
       THEN IF ~lastWasSpace
            THEN nwLoop(text, i + 1, Append(result, " "), TRUE)
            ELSE nwLoop(text, i + 1, result, lastWasSpace)
       ELSE IF IsPrint(text[i])
            THEN nwLoop(text, i + 1, Append(result, text[i]), FALSE)
            ELSE nwLoop(text, i + 1, result, lastWasSpace)
normalizeWhitespace(text) == TrimSpace(nwLoop(text, 1, <<>>, TRUE))

\* runeTrigrams without the whole-text entry of lines 19-21
runeTrigramsLongOnly(runes) ==
  IF Len(runes) < 3 THEN {}
  ELSE {SubSeq(runes, i, i + 2) : i \in 1..(Len(runes) - 2)}

\* lines 17-30: the windows of three runes, or the whole text when it is shorter
runeTrigrams(runes) ==
  IF Len(runes) < 3
  THEN (IF Len(runes) > 0 THEN {runes} ELSE {})
  ELSE {SubSeq(runes, i, i + 2) : i \in 1..(Len(runes) - 2)}
GenerateTrigrams(text) == runeTrigrams(normalizeWhitespace(ToLower(text)))

\* CalculateSimilarity without the early return of lines 36-38
CalculateSimilarityEmptyZero(a, b) ==
  IF Cardinality(a) = 0 \/ Cardinality(b) = 0 THEN 0
  ELSE LET intersection == Cardinality({t \in a : t \in b})
           union == Cardinality(a) + Cardinality(b) - intersection
       IN IF union = 0 THEN 0 ELSE (intersection * SCALE) \div union

\* CalculateSimilarity with the union of line 52 replaced by len(a) + len(b)
CalculateSimilarityUnionSum(a, b) ==
  IF Cardinality(a) = 0 /\ Cardinality(b) = 0 THEN SCALE
  ELSE IF Cardinality(a) = 0 \/ Cardinality(b) = 0 THEN 0
  ELSE LET intersection == Cardinality({t \in a : t \in b})
           union == Cardinality(a) + Cardinality(b)
       IN IF union = 0 THEN 0 ELSE (intersection * SCALE) \div union

\* Jaccard similarity of two trigram sets, in SCALE units
CalculateSimilarity(a, b) ==
  IF Cardinality(a) = 0 /\ Cardinality(b) = 0 THEN SCALE
  ELSE IF Cardinality(a) = 0 \/ Cardinality(b) = 0 THEN 0
  ELSE LET intersection == Cardinality({t \in a : t \in b})
           union == Cardinality(a) + Cardinality(b) - intersection
       IN IF union = 0 THEN 0 ELSE (intersection * SCALE) \div union

RECURSIVE lcsDp(_, _, _, _)
\* dp[i][j] of lines 85-88: the length of the common suffix of r1[1..i] and r2[1..j]
lcsDp(r1, r2, i, j) ==
  IF i = 0 \/ j = 0 THEN 0
  ELSE IF r1[i] = r2[j] THEN lcsDp(r1, r2, i - 1, j - 1) + 1 ELSE 0

SetMax(S) == CHOOSE v \in S : \A w \in S : w <= v
SetMin(S) == CHOOSE v \in S : \A w \in S : v <= w

\* <<substring, length>>: maxLen is the largest table entry, endIdx the first row
\* that holds it (the scan of lines 85-95 replaces maxLen only by a strictly larger entry)
lcsResult(r1, cells, maxLen) ==
  IF maxLen = 0 THEN << <<>>, 0 >>
  ELSE LET endIdx == SetMin({c[1] : c \in {d \in cells : d[2] = maxLen}})
       IN << SubSeq(r1, endIdx - maxLen + 1, endIdx), maxLen >>
lcsScan(r1, cells) == lcsResult(r1, cells, SetMax({c[2] : c \in cells}))
lcsRunes(r1, r2) ==
  IF Len(r1) = 0 \/ Len(r2) = 0 THEN << <<>>, 0 >>
  ELSE lcsScan(r1, {<<i, lcsDp(r1, r2, i, j)>> : i \in 1..Len(r1), j \in 1..Len(r2)})
\* LongestCommonSubstring without the lowercasing of lines 64-65
LongestCommonSubstringCased(s1, s2) == lcsRunes(s1, s2)
LongestCommonSubstring(s1, s2) == lcsRunes(ToLower(s1), ToLower(s2))

\* CalculateLCSSimilarity dividing by the length of s1 instead of the longer length
\* of lines 115-118
CalculateLCSSimilarityByFirst(s1, s2) ==
  IF ByteLen(s1) = 0 /\ ByteLen(s2) = 0 THEN SCALE
  ELSE IF ByteLen(s1) = 0 \/ ByteLen(s2) = 0 THEN 0
  ELSE (LongestCommonSubstring(s1, s2)[2] * SCALE) \div Len(s1)

\* LCS ratio in SCALE units
CalculateLCSSimilarity(s1, s2) ==
  IF ByteLen(s1) = 0 /\ ByteLen(s2) = 0 THEN SCALE
  ELSE IF ByteLen(s1) = 0 \/ ByteLen(s2) = 0 THEN 0
  ELSE LET lcsLen == LongestCommonSubstring(s1, s2)[2]
           maxLen == IF Len(s2) > Len(s1) THEN Len(s2) ELSE Len(s1)
       IN (lcsLen * SCALE) \div maxLen

\* the stop words of ExtractKeywords (lines 156-166)
stopWords ==
  {
    <<"y","a","n","g">>, <<"d","a","n">>, <<"d","i">>, <<"k","e">>, <<"d","a","r","i">>,
    <<"u","n","t","u","k">>, <<"d","e","n","g","a","n">>, <<"p","a","d","a">>,
    <<"a","d","a","l","a","h">>, <<"i","n","i">>, <<"i","t","u">>, <<"a","t","a","u">>,
    <<"t","i","d","a","k">>, <<"a","d","a">>, <<"o","l","e","h">>, <<"a","k","a","n">>,
    <<"s","u","d","a","h">>, <<"j","u","g","a">>, <<"d","a","p","a","t">>, <<"b","i","s","a">>,
    <<"l","e","b","i","h">>, <<"s","e","b","a","g","a","i">>, <<"d","a","l","a","m">>,
    <<"k","a","r","e","n","a">>, <<"t","e","l","a","h">>, <<"s","a","a","t">>,
    <<"s","e","t","e","l","a","h">>, <<"h","a","r","u","s">>, <<"m","e","n","j","a","d","i">>,
    <<"s","e","p","e","r","t","i">>, <<"t","e","r","s","e","b","u","t">>, <<"b","e","l","u","m">>,
    <<"s","e","h","i","n","g","g","a">>, <<"n","a","m","u","n">>, <<"b","i","l","a">>,
    <<"a","p","a","b","i","l","a">>, <<"b","a","h","w","a">>, <<"y","a","i","t","u">>,
    <<"a","n","t","a","r","a">>, <<"t","e","t","a","p","i">>, <<"t","a","p","i">>
  }

\* importantWords of ExtractKeyPhrase (lines 231-253)
importantWordsKeyPhrase ==
    <<"r","u","s","a","k">> :> 10 @@ <<"p","e","c","a","h">> :> 10 @@
    <<"r","e","t","a","k">> :> 10 @@ <<"b","o","c","o","r">> :> 10 @@
    <<"p","a","t","a","h">> :> 10 @@ <<"b","e","n","g","k","o","k">> :> 10 @@
    <<"k","o","t","o","r">> :> 10 @@ <<"c","a","c","a","t">> :> 10 @@
    <<"g","a","g","a","l">> :> 10 @@ <<"e","r","r","o","r">> :> 10 @@
    <<"s","a","l","a","h">> :> 10 @@ <<"k","e","l","i","r","u">> :> 10 @@
    <<"t","i","d","a","k">> :> 8 @@ <<"k","u","r","a","n","g">> :> 8 @@
    <<"l","e","b","i","h">> :> 6 @@ <<"b","e","d","a">> :> 8 @@
    <<"b","e","r","b","e","d","a">> :> 8 @@ <<"m","i","r","i","n","g">> :> 10 @@
    <<"g","e","s","e","r">> :> 10 @@ <<"l","o","n","g","g","a","r">> :> 10 @@
    <<"m","a","t","e","r","i","a","l">> :> 9 @@ <<"b","a","h","a","n">> :> 9 @@
    <<"k","a","c","a">> :> 9 @@ <<"a","l","u","m","i","n","i","u","m">> :> 9 @@
    <<"k","a","y","u">> :> 9 @@ <<"p","l","a","t">> :> 9 @@ <<"b","e","s","i">> :> 9 @@
    <<"s","t","a","i","n","l","e","s","s">> :> 9 @@ <<"k","a","r","e","t">> :> 9 @@
    <<"p","l","a","s","t","i","k">> :> 9 @@ <<"c","a","t">> :> 9 @@
    <<"f","i","n","i","s","h","i","n","g">> :> 9 @@ <<"p","o","w","d","e","r">> :> 9 @@
    <<"c","o","a","t","i","n","g">> :> 9 @@ <<"s","e","a","l","a","n","t">> :> 9 @@
    <<"p","i","n","t","u">> :> 8 @@ <<"j","e","n","d","e","l","a">> :> 8 @@
    <<"f","r","a","m","e">> :> 8 @@ <<"p","a","n","e","l">> :> 8 @@
    <<"h","a","n","d","l","e">> :> 8 @@ <<"k","u","n","c","i">> :> 8 @@
    <<"e","n","g","s","e","l">> :> 8 @@ <<"r","e","l">> :> 8 @@ <<"r","o","l","l","e","r">> :> 8 @@
    <<"g","l","a","s","s">> :> 8 @@ <<"p","r","o","f","i","l">> :> 8 @@
    <<"a","k","s","e","s","o","r","i","s">> :> 8 @@ <<"b","r","a","c","k","e","t">> :> 8 @@
    <<"c","o","r","n","e","r">> :> 8 @@ <<"g","a","s","k","e","t">> :> 8 @@
    <<"d","i","m","e","n","s","i">> :> 9 @@ <<"u","k","u","r","a","n">> :> 9 @@
    <<"w","a","r","n","a">> :> 9 @@ <<"b","e","n","t","u","k">> :> 9 @@
    <<"k","u","a","l","i","t","a","s">> :> 9 @@ <<"s","p","e","c">> :> 9 @@
    <<"s","p","e","s","i","f","i","k","a","s","i">> :> 9 @@
    <<"t","o","l","e","r","a","n","c","e">> :> 9 @@ <<"s","t","a","n","d","a","r">> :> 9 @@
    <<"r","e","j","e","c","t">> :> 10 @@ <<"d","e","f","e","c","t">> :> 10 @@
    <<"s","c","r","a","t","c","h">> :> 10 @@ <<"d","e","n","t">> :> 10 @@
    <<"b","a","r","e","t">> :> 10 @@ <<"p","e","n","y","o","k">> :> 10 @@
    <<"w","e","l","d","i","n","g">> :> 8 @@ <<"l","a","s">> :> 8 @@
    <<"c","u","t","t","i","n","g">> :> 8 @@ <<"p","o","t","o","n","g">> :> 8 @@
    <<"d","r","i","l","l","i","n","g">> :> 8 @@ <<"b","o","r">> :> 8 @@
    <<"a","s","s","e","m","b","l","y">> :> 8 @@ <<"r","a","k","i","t">> :> 8 @@
    <<"p","a","c","k","i","n","g">> :> 8 @@ <<"k","i","r","i","m">> :> 8 @@
    <<"p","r","o","d","u","k","s","i">> :> 8 @@ <<"p","r","o","s","e","s">> :> 7 @@
    <<"m","e","s","i","n">> :> 8 @@ <<"a","l","a","t">> :> 7 @@ <<"s","e","t","t","i","n","g">> :> 8

\* importantWords of GetClusterSummary (lines 322-339)
importantWordsSummary ==
    <<"r","u","s","a","k">> :> 10 @@ <<"p","e","c","a","h">> :> 10 @@
    <<"r","e","t","a","k">> :> 10 @@ <<"b","o","c","o","r">> :> 10 @@
    <<"p","a","t","a","h">> :> 10 @@ <<"b","e","n","g","k","o","k">> :> 10 @@
    <<"k","o","t","o","r">> :> 10 @@ <<"c","a","c","a","t">> :> 10 @@
    <<"g","a","g","a","l">> :> 10 @@ <<"e","r","r","o","r">> :> 10 @@
    <<"s","a","l","a","h">> :> 10 @@ <<"k","e","l","i","r","u">> :> 10 @@
    <<"t","i","d","a","k">> :> 8 @@ <<"k","u","r","a","n","g">> :> 8 @@
    <<"m","i","r","i","n","g">> :> 10 @@ <<"g","e","s","e","r">> :> 10 @@
    <<"l","o","n","g","g","a","r">> :> 10 @@ <<"b","e","d","a">> :> 8 @@
    <<"b","e","r","b","e","d","a">> :> 8 @@ <<"m","a","t","e","r","i","a","l">> :> 9 @@
    <<"b","a","h","a","n">> :> 9 @@ <<"k","a","c","a">> :> 9 @@
    <<"a","l","u","m","i","n","i","u","m">> :> 9 @@ <<"k","a","y","u">> :> 9 @@
    <<"p","l","a","t">> :> 9 @@ <<"b","e","s","i">> :> 9 @@
    <<"s","t","a","i","n","l","e","s","s">> :> 9 @@ <<"k","a","r","e","t">> :> 9 @@
    <<"p","l","a","s","t","i","k">> :> 9 @@ <<"c","a","t">> :> 9 @@
    <<"f","i","n","i","s","h","i","n","g">> :> 9 @@ <<"p","o","w","d","e","r">> :> 9 @@
    <<"c","o","a","t","i","n","g">> :> 9 @@ <<"s","e","a","l","a","n","t">> :> 9 @@
    <<"p","i","n","t","u">> :> 8 @@ <<"j","e","n","d","e","l","a">> :> 8 @@
    <<"f","r","a","m","e">> :> 8 @@ <<"p","a","n","e","l">> :> 8 @@
    <<"h","a","n","d","l","e">> :> 8 @@ <<"k","u","n","c","i">> :> 8 @@
    <<"e","n","g","s","e","l">> :> 8 @@ <<"r","e","l">> :> 8 @@ <<"r","o","l","l","e","r">> :> 8 @@
    <<"g","l","a","s","s">> :> 8 @@ <<"p","r","o","f","i","l">> :> 8 @@
    <<"a","k","s","e","s","o","r","i","s">> :> 8 @@ <<"b","r","a","c","k","e","t">> :> 8 @@
    <<"c","o","r","n","e","r">> :> 8 @@ <<"g","a","s","k","e","t">> :> 8 @@
    <<"d","i","m","e","n","s","i">> :> 9 @@ <<"u","k","u","r","a","n">> :> 9 @@
    <<"w","a","r","n","a">> :> 9 @@ <<"b","e","n","t","u","k">> :> 9 @@
    <<"k","u","a","l","i","t","a","s">> :> 9 @@ <<"s","p","e","c">> :> 9 @@
    <<"s","p","e","s","i","f","i","k","a","s","i">> :> 9 @@
    <<"t","o","l","e","r","a","n","c","e">> :> 9 @@ <<"s","t","a","n","d","a","r">> :> 9 @@
    <<"r","e","j","e","c","t">> :> 10 @@ <<"d","e","f","e","c","t">> :> 10 @@
    <<"s","c","r","a","t","c","h">> :> 10 @@ <<"d","e","n","t">> :> 10 @@
    <<"b","a","r","e","t">> :> 10 @@ <<"p","e","n","y","o","k">> :> 10 @@
    <<"w","e","l","d","i","n","g">> :> 8 @@ <<"l","a","s">> :> 8 @@
    <<"c","u","t","t","i","n","g">> :> 8 @@ <<"p","o","t","o","n","g">> :> 8 @@
    <<"d","r","i","l","l","i","n","g">> :> 8 @@ <<"b","o","r">> :> 8 @@
    <<"a","s","s","e","m","b","l","y">> :> 8 @@ <<"r","a","k","i","t">> :> 8 @@
    <<"p","a","c","k","i","n","g">> :> 8 @@ <<"k","i","r","i","m">> :> 8 @@
    <<"p","r","o","d","u","k","s","i">> :> 8 @@ <<"p","r","o","s","e","s">> :> 7 @@
    <<"m","e","s","i","n">> :> 8 @@ <<"a","l","a","t">> :> 7 @@ <<"s","e","t","t","i","n","g">> :> 8

\* the cutset of strings.Trim in ExtractKeywords
punctuation == {".", ",", ";", ":", "!", "?", "\"", "'", "(", ")", "[", "]", "{", "}", "/", "-"}

\* lines 173-176: a trimmed word longer than two bytes that is no stop word is kept
ekAppend(keywords, word) ==
  IF ByteLen(word) > 2 /\ word \notin stopWords THEN Append(keywords, word) ELSE keywords
RECURSIVE ekLoop(_, _, _)
ekLoop(words, i, keywords) ==
  IF i > Len(words) THEN keywords
  ELSE ekLoop(words, i + 1, ekAppend(keywords, Trim(words[i], punctuation)))
ExtractKeywords(text) == ekLoop(Fields(ToLower(text)), 1, <<>>)

\* the map lookup `v, ok := m[k]`: <<v, ok>>
Lookup(m, k) == IF k \in DOMAIN m THEN <<m[k], TRUE>> ELSE <<0, FALSE>>

(***************************************************************************)
(* Go maps: `for k, v := range m` visits the keys in an order the runtime  *)
(* chooses; MapOrders(keys) is the set of orders it may choose.            *)
(***************************************************************************)
RECURSIVE MapOrders(_)
MapOrders(keys) ==
  IF keys = {} THEN {<<>>}
  ELSE UNION {{<<k>> \o rest : rest \in MapOrders(keys \ {k})} : k \in keys}

Range(s) == {s[k] : k \in 1..Len(s)}

RECURSIVE SumOver(_, _)
\* the sum of f[k] over k \in S
SumOver(f, S) ==
  IF S = {} THEN 0
  ELSE LET k == CHOOSE x \in S : TRUE IN f[k] + SumOver(f, S \ {k})

(***************************************************************************)
(* package math in fixed point                                             *)
(***************************************************************************)
RECURSIVE sqrtSearch(_, _, _)
sqrtSearch(n, lo, hi) ==
  IF lo >= hi THEN lo
  ELSE LET mid == (lo + hi + 1) \div 2 IN
       IF mid * mid <= n THEN sqrtSearch(n, mid, hi) ELSE sqrtSearch(n, lo, mid - 1)
\* math.Sqrt of a SCALE*SCALE-unit value, in SCALE units
Sqrt(n) == sqrtSearch(n, 0, Min2(n, 46340))

RECURSIVE atanhSeries(_, _, _, _)
\* z + z^3/3 + z^5/5 + ... up to the term of degree maxDeg; z >= 0, z and the sum in SCALE units
atanhSeries(zPow, z2, deg, maxDeg) ==
  IF deg > maxDeg \/ zPow = 0 THEN 0
  ELSE (zPow \div deg) + atanhSeries((zPow * z2) \div SCALE, z2, deg + 2, maxDeg)
\* ln 2 and ln 10 in SCALE units
Ln2 == 6931
Ln10 == 23026
RECURSIVE LogGE1(_, _)
\* ln(num / den) for num >= den > 0: halve the ratio down to [1, 2), then 2 * atanh
LogGE1(num, den) ==
  IF num >= 2 * den THEN Ln2 + LogGE1(num, 2 * den)
  ELSE LET z == ((num - den) * SCALE) \div (num + den)
           z2 == (z * z) \div SCALE
       IN 2 * atanhSeries(z, z2, 1, 15)
\* math.Log(num / den) in SCALE units, num and den positive integers
Log(num, den) == IF num >= den THEN LogGE1(num, den) ELSE 0 - LogGE1(den, num)
\* math.Log10(n) in SCALE units, n a positive integer
Log10(n) == (Log(n, 1) * SCALE) \div Ln10

RECURSIVE expSeries(_, _, _, _, _)
\* 1 + x + x^2/2! + ... for x = num/den in [0, 1), in SCALE units
expSeries(term, num, den, k, maxK) ==
  IF k > maxK \/ term = 0 THEN 0
  ELSE term + expSeries((term * num) \div (den * k), num, den, k + 1, maxK)
\* 1/e in SCALE units
InvE == 3679
RECURSIVE expNegInt(_)
\* e^(-q) in SCALE units, q a natural number
expNegInt(q) == IF q = 0 THEN SCALE ELSE (expNegInt(q - 1) * InvE) \div SCALE
\* math.Exp(-num / den) in SCALE units, num >= 0, den > 0
ExpNeg(num, den) ==
  (expNegInt(num \div den) * SCALE) \div expSeries(SCALE, num % den, den, 1, 12)

(***************************************************************************)
(* tfidf.go                                                                *)
(***************************************************************************)
\* only the first keyword of a document
UniqueWordsFirst(doc) ==
  IF Len(ExtractKeywords(doc)) = 0 THEN {} ELSE {ExtractKeywords(doc)[1]}

\* the words of a document, each once
UniqueWords(doc) == Range(ExtractKeywords(doc))

\* docFreq of Fit (lines 36-49): the number of documents a word occurs in
docFreqOf(words) ==
  [w \in UNION {words[d] : d \in DOMAIN words} |->
     Cardinality({d \in DOMAIN words : w \in words[d]})]
DocFreq(documents) == docFreqOf([d \in 1..Len(documents) |-> UniqueWords(documents[d])])

RECURSIVE fitVocabulary(_, _, _, _, _)
\* lines 52-58: indices are handed out in the order the docFreq map is ranged over
fitVocabulary(docFreq, order, k, idx, vocabulary) ==
  IF k > Len(order) THEN vocabulary
  ELSE IF docFreq[order[k]] >= 2
       THEN fitVocabulary(docFreq, order, k + 1, idx + 1, vocabulary @@ (order[k] :> idx))
       ELSE fitVocabulary(docFreq, order, k + 1, idx, vocabulary)

\* NewTFIDFVectorizer
NewTFIDFVectorizer == [vocabulary |-> <<>>, idf |-> <<>>, docCount |-> 0]

\* the words Fit keeps (line 54)
keptWords(docFreq) == {w \in DOMAIN docFreq : docFreq[w] >= 2}
FitWords(documents) == keptWords(DocFreq(documents))

\* TFIDFVectorizer.Fit on a fresh vectorizer; order: the order in which the range
\* over docFreq (line 53) visits the words it keeps
\* lines 61-66: idf = log(docCount / (1 + docFreq)) + 1 for every vocabulary word
fitIdf(documents, docFreq, vocabulary) ==
  [vocabulary |-> vocabulary,
   idf |-> [i \in 0..(Cardinality(DOMAIN vocabulary) - 1) |->
              LET word == CHOOSE w \in DOMAIN vocabulary : vocabulary[w] = i
              IN Log(Len(documents), 1 + docFreq[word]) + SCALE],
   docCount |-> Len(documents)]
fitDocFreq(documents, order, docFreq) ==
  fitIdf(documents, docFreq, fitVocabulary(docFreq, order, 1, 0, <<>>))
Fit(documents, order) ==
  IF Len(documents) = 0 THEN NewTFIDFVectorizer
  ELSE fitDocFreq(documents, order, DocFreq(documents))

\* the zero TFIDFVector
EmptyVector == [values |-> <<>>, norm |-> 0]

\* TFIDFVectorizer.Transform
\* lines 104-107: the norm of the value map
vectorOf(values) ==
  [values |-> values,
   norm |-> Sqrt(SumOver([i \in DOMAIN values |-> values[i] * values[i]], DOMAIN values))]
\* lines 93-102: tf * idf for every word of the document the vocabulary knows
transformTf(v, tf, totalTerms) ==
  LET known == {w \in DOMAIN tf : w \in DOMAIN v.vocabulary}
  IN vectorOf([i \in {v.vocabulary[w] : w \in known} |->
                 LET w == CHOOSE x \in known : v.vocabulary[x] = i
                 IN (tf[w] * v.idf[i]) \div totalTerms])
\* lines 80-91: term counts of the document's keywords
transformWords(v, words) ==
  IF Len(words) = 0 THEN EmptyVector
  ELSE transformTf(v, [w \in Range(words) |-> Cardinality({k \in 1..Len(words) : words[k] = w})],
                   Len(words))
\* Transform leaving every vector empty, as when no word is in the vocabulary (line 75)
TransformNone(v, doc) == EmptyVector
Transform(v, doc) ==
  IF Cardinality(DOMAIN v.vocabulary) = 0 THEN EmptyVector
  ELSE transformWords(v, ExtractKeywords(doc))

\* cosine of two TF-IDF vectors in SCALE units
CosineSimilarity(a, b) ==
  IF a.norm = 0 \/ b.norm = 0 THEN 0
  ELSE LET common == DOMAIN a.values \cap DOMAIN b.values
           dotProduct == SumOver([i \in common |-> a.values[i] * b.values[i]], common)
           byA == (dotProduct \div a.norm) * SCALE + ((dotProduct % a.norm) * SCALE) \div a.norm
       IN byA \div b.norm

\* the clustering profile (lines 142-144), in SCALE units
ClusterTrigramWeight == 2500
ClusterLCSWeight == 1500
ClusterTFIDFWeight == 6000

\* NewSemanticSimilarity; order: the range order of Fit's docFreq map
semanticSimilarityOf(documents, vectorizer) ==
  [vectorizer |-> vectorizer,
   tfidfVectors |-> [i \in 1..Len(documents) |-> Transform(vectorizer, documents[i])],
   trigramWeight |-> ClusterTrigramWeight,
   lcsWeight |-> ClusterLCSWeight,
   tfidfWeight |-> ClusterTFIDFWeight]
NewSemanticSimilarity(documents, order) == semanticSimilarityOf(documents, Fit(documents, order))

\* CalculateFromVectors without the LCS term of line 188
CalculateFromVectorsNoLCS(ss, text1, text2, trigrams1, trigrams2, vec1, vec2) ==
  (CalculateSimilarity(trigrams1, trigrams2) * ss.trigramWeight)
    + (CosineSimilarity(vec1, vec2) * ss.tfidfWeight)

\* the hybrid score, a sum of products of two fixed-point numbers: SCALE*SCALE units
CalculateFromVectors(ss, text1, text2, trigrams1, trigrams2, vec1, vec2) ==
  LET trigramSim == CalculateSimilarity(trigrams1, trigrams2)
      lcsSim == CalculateLCSSimilarity(text1, text2)
      tfidfSim == CosineSimilarity(vec1, vec2)
  IN (trigramSim * ss.trigramWeight) + (lcsSim * ss.lcsWeight) + (tfidfSim * ss.tfidfWeight)

GetVocabularySize(ss) == Cardinality(DOMAIN ss.vectorizer.vocabulary)

RECURSIVE bubbleInnerSwapEqual(_, _, _, _)
\* the inner loop with the comparison <= in place of <
bubbleInnerSwapEqual(s, key, j, last) ==
  IF j > last THEN <<s, key>>
  ELSE IF key[j] <= key[j + 1]
       THEN bubbleInnerSwapEqual([s EXCEPT ![j] = s[j + 1], ![j + 1] = s[j]],
                                 [key EXCEPT ![j] = key[j + 1], ![j + 1] = key[j]],
                                 j + 1, last)
       ELSE bubbleInnerSwapEqual(s, key, j + 1, last)
RECURSIVE bubbleInner(_, _, _, _)
\* one pass of the inner loop: s the slice, key[k] the sort key of s[k],
\* adjacent elements swapped when the left key is strictly smaller
bubbleInner(s, key, j, last) ==
  IF j > last THEN <<s, key>>
  ELSE IF key[j] < key[j + 1]
       THEN bubbleInner([s EXCEPT ![j] = s[j + 1], ![j + 1] = s[j]],
                        [key EXCEPT ![j] = key[j + 1], ![j + 1] = key[j]], j + 1, last)
       ELSE bubbleInner(s, key, j + 1, last)
RECURSIVE bubbleOuter(_, _, _)
bubbleOuter(s, key, i) ==
  IF i >= Len(s) - 1 THEN s
  ELSE LET pass == bubbleInner(s, key, 1, Len(s) - i - 1)
       IN bubbleOuter(pass[1], pass[2], i + 1)
\* the bubble sort of tfidf.go 211-217, trigram.go 208-214, 281-287, 361-367:
\* descending by key
bubbleSortDesc(s, key) == bubbleOuter(s, key, 0)

\* first n elements of a slice (all of it when shorter)
Take(s, n) == SubSeq(s, 1, Min2(n, Len(s)))

\* GetTopTerms; order: the range order of the vocabulary map
GetTopTerms(ss, n, order) ==
  LET idfOf == [k \in 1..Len(order) |-> ss.vectorizer.idf[ss.vectorizer.vocabulary[order[k]]]]
  IN Take(bubbleSortDesc(order, idfOf), n)

(***************************************************************************)
(* cluster.go: ProblemData, Cluster, ClusterStats and the clusterer        *)
(***************************************************************************)
\* a *time.Time: <<>> is nil, <<d>> points at day d
NilTime == <<>>

\* ProblemData as fetchProblems builds it: no cached trigrams, zero vector.
\* Trigrams: <<>> is the nil map, <<set>> a map holding that set
NewProblemData(id, text, tanggal, kategori) ==
  [ID |-> id, DeskripsiMasalah |-> text, Tanggal |-> tanggal, Kategori |-> kategori,
   Trigrams |-> <<>>, TFIDFVector |-> EmptyVector]

\* the set a trigram map holds (a nil map ranges as an empty one)
TrigramsOf(p) == IF p.Trigrams = <<>> THEN {} ELSE p.Trigrams[1]

\* the zero value of ClusterStats
ZeroClusterStats ==
  [TotalProblems |-> 0, VocabularySize |-> 0, ClusterCount |-> 0, TopTerms |-> <<>>,
   Threshold |-> 0, WeightTrigram |-> 0, WeightLCS |-> 0, WeightTFIDF |-> 0]

Descriptions(problems) == [i \in 1..Len(problems) |-> problems[i].DeskripsiMasalah]

\* lines 86-92: cache the trigram set and the TF-IDF vector on every problem
Precompute(problems, semSim) ==
  [i \in 1..Len(problems) |->
     [problems[i] EXCEPT
        !.Trigrams = IF problems[i].Trigrams = <<>>
                     THEN <<GenerateTrigrams(problems[i].DeskripsiMasalah)>>
                     ELSE problems[i].Trigrams,
        !.TFIDFVector = semSim.tfidfVectors[i]]]

\* a Cluster literal that names its Problems only (lines 105-107)
NewCluster(problems) == [Problems |-> problems, CentroidIdx |-> 0, RPNScore |-> 0]

RECURSIVE clusterInnerUnmarked(_, _, _, _, _, _, _)
\* lines 110-129 without the assignment of line 127
clusterInnerUnmarked(problems, semSim, threshold, i, j, cluster, assigned) ==
  IF j > Len(problems) THEN <<cluster, assigned>>
  ELSE IF assigned[j]
       THEN clusterInnerUnmarked(problems, semSim, threshold, i, j + 1, cluster, assigned)
  ELSE IF CalculateFromVectors(semSim,
            problems[i].DeskripsiMasalah, problems[j].DeskripsiMasalah,
            TrigramsOf(problems[i]), TrigramsOf(problems[j]),
            problems[i].TFIDFVector, problems[j].TFIDFVector) >= threshold * SCALE
       THEN clusterInnerUnmarked(problems, semSim, threshold, i, j + 1,
                                 [cluster EXCEPT !.Problems = Append(@, problems[j])],
                                 assigned)
       ELSE clusterInnerUnmarked(problems, semSim, threshold, i, j + 1, cluster, assigned)

RECURSIVE clusterInnerChained(_, _, _, _, _, _, _)
\* lines 110-129 comparing item j with the member added last instead of the founder
clusterInnerChained(problems, semSim, threshold, i, j, cluster, assigned) ==
  IF j > Len(problems) THEN <<cluster, assigned>>
  ELSE IF assigned[j]
       THEN clusterInnerChained(problems, semSim, threshold, i, j + 1, cluster, assigned)
  ELSE LET last == cluster.Problems[Len(cluster.Problems)]
           similarity == CalculateFromVectors(semSim,
                           last.DeskripsiMasalah, problems[j].DeskripsiMasalah,
                           TrigramsOf(last), TrigramsOf(problems[j]),
                           last.TFIDFVector, problems[j].TFIDFVector)
       IN IF similarity >= threshold * SCALE
          THEN clusterInnerChained(problems, semSim, threshold, i, j + 1,
                                   [cluster EXCEPT !.Problems = Append(@, problems[j])],
                                   [assigned EXCEPT ![j] = TRUE])
          ELSE clusterInnerChained(problems, semSim, threshold, i, j + 1, cluster, assigned)

RECURSIVE clusterInnerStrict(_, _, _, _, _, _, _)
\* lines 110-129 with `similarity > threshold` in place of `>=` at line 125
clusterInnerStrict(problems, semSim, threshold, i, j, cluster, assigned) ==
  IF j > Len(problems) THEN <<cluster, assigned>>
  ELSE IF assigned[j]
       THEN clusterInnerStrict(problems, semSim, threshold, i, j + 1, cluster, assigned)
  ELSE IF CalculateFromVectors(semSim,
            problems[i].DeskripsiMasalah, problems[j].DeskripsiMasalah,
            TrigramsOf(problems[i]), TrigramsOf(problems[j]),
            problems[i].TFIDFVector, problems[j].TFIDFVector) > threshold * SCALE
       THEN clusterInnerStrict(problems, semSim, threshold, i, j + 1,
                               [cluster EXCEPT !.Problems = Append(@, problems[j])],
                               [assigned EXCEPT ![j] = TRUE])
       ELSE clusterInnerStrict(problems, semSim, threshold, i, j + 1, cluster, assigned)

RECURSIVE clusterInner(_, _, _, _, _, _, _)
\* lines 110-129: the scan of the items after founder i
clusterInner(problems, semSim, threshold, i, j, cluster, assigned) ==
  IF j > Len(problems) THEN <<cluster, assigned>>
  ELSE IF assigned[j] THEN clusterInner(problems, semSim, threshold, i, j + 1, cluster, assigned)
  ELSE LET similarity == CalculateFromVectors(semSim,
                           problems[i].DeskripsiMasalah, problems[j].DeskripsiMasalah,
                           TrigramsOf(problems[i]), TrigramsOf(problems[j]),
                           problems[i].TFIDFVector, problems[j].TFIDFVector)
       IN IF similarity >= threshold * SCALE
          THEN clusterInner(problems, semSim, threshold, i, j + 1,
                            [cluster EXCEPT !.Problems = Append(@, problems[j])],
                            [assigned EXCEPT ![j] = TRUE])
          ELSE clusterInner(problems, semSim, threshold, i, j + 1, cluster, assigned)

RECURSIVE clusterOuterPrepend(_, _, _, _, _, _)
\* lines 98-132 putting every new cluster in front of the earlier ones (line 131)
clusterOuterPrepend(problems, semSim, threshold, i, assigned, clusters) ==
  IF i > Len(problems) THEN clusters
  ELSE IF assigned[i]
       THEN clusterOuterPrepend(problems, semSim, threshold, i + 1, assigned, clusters)
  ELSE LET scan == clusterInner(problems, semSim, threshold, i, i + 1,
                                NewCluster(<<problems[i]>>),
                                [assigned EXCEPT ![i] = TRUE])
       IN clusterOuterPrepend(problems, semSim, threshold, i + 1, scan[2],
                              <<scan[1]>> \o clusters)

RECURSIVE clusterOuter(_, _, _, _, _, _)
\* lines 98-132: every unassigned item founds a cluster
clusterOuter(problems, semSim, threshold, i, assigned, clusters) ==
  IF i > Len(problems) THEN clusters
  ELSE IF assigned[i] THEN clusterOuter(problems, semSim, threshold, i + 1, assigned, clusters)
  ELSE LET scan == clusterInner(problems, semSim, threshold, i, i + 1,
                                NewCluster(<<problems[i]>>),
                                [assigned EXCEPT ![i] = TRUE])
       IN clusterOuter(problems, semSim, threshold, i + 1, scan[2], Append(clusters, scan[1]))

\* lines 71-80, 134-135: the statistics and the clusters returned
clusterResult(problems, threshold, termsOrder, semSim, clusters) ==
  [clusters |-> clusters,
   stats |-> [TotalProblems |-> Len(problems),
              VocabularySize |-> GetVocabularySize(semSim),
              ClusterCount |-> Len(clusters),
              TopTerms |-> GetTopTerms(semSim, 10, termsOrder),
              Threshold |-> threshold,
              WeightTrigram |-> semSim.trigramWeight,
              WeightLCS |-> semSim.lcsWeight,
              WeightTFIDF |-> semSim.tfidfWeight],
   problems |-> problems]
\* lines 87-132: the caches filled and the clusters formed, before the statistics
\* of lines 134-135 are completed
clusterCached(cached, threshold, semSim) ==
  [problems |-> cached, semSim |-> semSim,
   clusters |-> clusterOuter(cached, semSim, threshold, 1,
                             [k \in 1..Len(cached) |-> FALSE], <<>>)]
\* lines 71-77 and 87-132 for a non-empty corpus
clusterFitted(problems, threshold, semSim) ==
  clusterCached(Precompute(problems, semSim), threshold, semSim)
clusterWith(problems, threshold, fitOrder) ==
  clusterFitted(problems, threshold, NewSemanticSimilarity(Descriptions(problems), fitOrder))
\* lines 80-84 and 134-135 on the outcome of clusterWith
clusterStats(formed, threshold, termsOrder) ==
  clusterResult(formed.problems, threshold, termsOrder, formed.semSim, formed.clusters)

\* ClusterDescriptionsSemanticWithStats.  threshold in SCALE units; fitOrder and
\* termsOrder: the range orders of Fit's docFreq map and of GetTopTerms' vocabulary
\* map.  The result carries the caller's slice as the call leaves it.
ClusterDescriptionsSemanticWithStats(problems, threshold, fitOrder, termsOrder) ==
  IF Len(problems) = 0
  THEN [clusters |-> <<>>,
        stats |-> [ZeroClusterStats EXCEPT !.TotalProblems = 0, !.Threshold = threshold],
        problems |-> problems]
  ELSE clusterStats(clusterWith(problems, threshold, fitOrder), threshold, termsOrder)

\* the centroid profile (line 168), in SCALE units
CentroidTrigramWeight == 3000
CentroidLCSWeight == 2000
CentroidTFIDFWeight == 5000

\* lines 163-168: the hybrid score of two members under the centroid profile,
\* in SCALE*SCALE units
centroidSimilarity(p, q) ==
  (CalculateSimilarity(TrigramsOf(p), TrigramsOf(q)) * CentroidTrigramWeight)
    + (CalculateLCSSimilarity(p.DeskripsiMasalah, q.DeskripsiMasalah) * CentroidLCSWeight)
    + (CosineSimilarity(p.TFIDFVector, q.TFIDFVector) * CentroidTFIDFWeight)

RECURSIVE centroidTotal(_, _, _)
\* lines 159-172: the summed distance of member i to the members j..n (0-based i, j)
centroidTotal(ps, i, j) ==
  IF j >= Len(ps) THEN 0
  ELSE IF i = j THEN centroidTotal(ps, i, j + 1)
  ELSE (SCALE * SCALE - centroidSimilarity(ps[i + 1], ps[j + 1])) + centroidTotal(ps, i, j + 1)

RECURSIVE centroidLoop(_, _, _, _)
RECURSIVE centroidKeep(_, _, _, _, _)
\* lines 158-179: keep the first member whose average distance is strictly smaller
centroidLoop(ps, i, minAvgDistance, centroidIdx) ==
  IF i >= Len(ps) THEN centroidIdx
  ELSE centroidKeep(ps, i, minAvgDistance, centroidIdx,
                    centroidTotal(ps, i, 0) \div (Len(ps) - 1))
\* lines 175-178 with `<=` in place of `<`: the last member of minimal distance is kept
centroidKeepLast(ps, i, minAvgDistance, centroidIdx, avgDistance) ==
  IF avgDistance <= minAvgDistance
  THEN centroidLoop(ps, i + 1, avgDistance, i)
  ELSE centroidLoop(ps, i + 1, minAvgDistance, centroidIdx)
\* lines 175-178
centroidKeep(ps, i, minAvgDistance, centroidIdx, avgDistance) ==
  IF avgDistance < minAvgDistance
  THEN centroidLoop(ps, i + 1, avgDistance, i)
  ELSE centroidLoop(ps, i + 1, minAvgDistance, centroidIdx)

\* SelectCentroidSemantic storing the position of the centroid counted from one
SelectCentroidSemanticFromOne(cluster) ==
  IF Len(cluster.Problems) = 0 THEN cluster
  ELSE IF Len(cluster.Problems) = 1 THEN [cluster EXCEPT !.CentroidIdx = 1]
  ELSE [cluster EXCEPT
          !.CentroidIdx = centroidLoop(cluster.Problems, 0, 2 * SCALE * SCALE, 0) + 1]

\* SelectCentroidSemantic: the cluster as the call leaves it; CentroidIdx is 0-based
SelectCentroidSemantic(cluster) ==
  IF Len(cluster.Problems) = 0 THEN cluster
  ELSE IF Len(cluster.Problems) = 1 THEN [cluster EXCEPT !.CentroidIdx = 0]
  ELSE [cluster EXCEPT !.CentroidIdx = centroidLoop(cluster.Problems, 0, 2 * SCALE * SCALE, 0)]

SelectCentroid(cluster) == SelectCentroidSemantic(cluster)

\* slice indexing c.Problems[idx] with a 0-based index; out of range panics
IndexInRange(c, idx) == 0 <= idx /\ idx < Len(c.Problems)

\* Cluster.GetCentroidDescription; "panic" when the index is out of range
GetCentroidDescription(c) ==
  IF Len(c.Problems) = 0 THEN <<>>
  ELSE IF IndexInRange(c, c.CentroidIdx) THEN c.Problems[c.CentroidIdx + 1].DeskripsiMasalah
  ELSE <<"panic">>

\* GetSampleIDs reading the last members of the cluster instead of the first (line 224)
GetSampleIDsLast(c) ==
  LET limit == IF Len(c.Problems) < 5 THEN Len(c.Problems) ELSE 5
  IN [i \in 1..limit |-> c.Problems[Len(c.Problems) - limit + i].ID]

\* Cluster.GetSampleIDs
GetSampleIDs(c) ==
  LET limit == IF Len(c.Problems) < 5 THEN Len(c.Problems) ELSE 5
  IN [i \in 1..limit |-> c.Problems[i].ID]

\* kategoriCount of GetMostCommonKategori
KategoriCount(c) ==
  [k \in {c.Problems[i].Kategori : i \in 1..Len(c.Problems)} \ {""} |->
     Cardinality({i \in 1..Len(c.Problems) : c.Problems[i].Kategori = k})]

RECURSIVE kategoriLoop(_, _, _, _, _)
\* lines 242-249
kategoriLoop(count, order, k, maxCount, mostCommon) ==
  IF k > Len(order) THEN mostCommon
  ELSE IF count[order[k]] > maxCount
       THEN kategoriLoop(count, order, k + 1, count[order[k]], order[k])
       ELSE kategoriLoop(count, order, k + 1, maxCount, mostCommon)

\* Cluster.GetMostCommonKategori; order: the range order of kategoriCount
GetMostCommonKategori(c, order) ==
  IF Len(c.Problems) = 0 THEN ""
  ELSE kategoriLoop(KategoriCount(c), order, 1, 0, "")

(***************************************************************************)
(* rpn.go                                                                  *)
(***************************************************************************)
\* DefaultRPNConfig: the weights in SCALE units, the window in days
DefaultRPNConfig == [FrequencyWeight |-> 6000, RecencyWeight |-> 4000, RecencyDays |-> 90]

RECURSIVE recencyLoopCountAll(_, _, _, _, _, _)
\* recencyLoop without the `continue` of lines 57-59: a member without a date adds
\* nothing to totalScore and is counted in validCount
recencyLoopCountAll(ps, recencyDays, now, k, totalScore, validCount) ==
  IF k > Len(ps) THEN <<totalScore, validCount>>
  ELSE IF ps[k].Tanggal = NilTime
       THEN recencyLoopCountAll(ps, recencyDays, now, k + 1, totalScore, validCount + 1)
       ELSE LET since == now - ps[k].Tanggal[1]
                daysSince == IF since < 0 THEN 0 ELSE since
                score == 10 * ExpNeg(daysSince, recencyDays)
            IN recencyLoopCountAll(ps, recencyDays, now, k + 1, totalScore + score,
                                   validCount + 1)

RECURSIVE recencyLoop(_, _, _, _, _, _)
\* lines 56-71: <<totalScore, validCount>> over the members k..n
recencyLoop(ps, recencyDays, now, k, totalScore, validCount) ==
  IF k > Len(ps) THEN <<totalScore, validCount>>
  ELSE IF ps[k].Tanggal = NilTime
       THEN recencyLoop(ps, recencyDays, now, k + 1, totalScore, validCount)
       ELSE LET since == now - ps[k].Tanggal[1]
                daysSince == IF since < 0 THEN 0 ELSE since
                score == 10 * ExpNeg(daysSince, recencyDays)
            IN recencyLoop(ps, recencyDays, now, k + 1, totalScore + score, validCount + 1)

\* calculateRecencyScore in SCALE units; now: the day time.Now() returns
\* lines 73-77: the neutral 5.0 when no member has a date, the mean otherwise
recencyAverage(sum) == IF sum[2] = 0 THEN 5 * SCALE ELSE sum[1] \div sum[2]
calculateRecencyScore(cluster, recencyDays, now) ==
  IF Len(cluster.Problems) = 0 THEN 0
  ELSE recencyAverage(recencyLoop(cluster.Problems, recencyDays, now, 1, 0, 0))

\* CalculateRPN without the clamp of line 41
CalculateRPNUnclamped(cluster, config, now) ==
  IF Len(cluster.Problems) = 0 THEN cluster
  ELSE LET frequencyScore == Log10(Len(cluster.Problems) + 1) * 10
           recencyScore == calculateRecencyScore(cluster, config.RecencyDays, now)
           rpn == ((frequencyScore * config.FrequencyWeight)
                     + (recencyScore * config.RecencyWeight)) \div SCALE
       IN [cluster EXCEPT !.RPNScore = rpn * 10]

\* CalculateRPN that also resets CentroidIdx
CalculateRPNResetCentroid(cluster, config, now) ==
  IF Len(cluster.Problems) = 0 THEN cluster
  ELSE LET frequencyScore == Log10(Len(cluster.Problems) + 1) * 10
           recencyScore == calculateRecencyScore(cluster, config.RecencyDays, now)
           rpn == ((frequencyScore * config.FrequencyWeight)
                     + (recencyScore * config.RecencyWeight)) \div SCALE
       IN [cluster EXCEPT !.RPNScore = Min2(rpn * 10, 100 * SCALE), !.CentroidIdx = 0]

\* CalculateRPN: the cluster as the call leaves it, RPNScore in SCALE units
CalculateRPN(cluster, config, now) ==
  IF Len(cluster.Problems) = 0 THEN cluster
  ELSE LET frequencyScore == Log10(Len(cluster.Problems) + 1) * 10
           recencyScore == calculateRecencyScore(cluster, config.RecencyDays, now)
           rpn == ((frequencyScore * config.FrequencyWeight)
                     + (recencyScore * config.RecencyWeight)) \div SCALE
       IN [cluster EXCEPT !.RPNScore = Min2(rpn * 10, 100 * SCALE)]

\* SortClustersByRPN: the slice as the call leaves it
SortClustersByRPN(clusters) ==
  bubbleSortDesc(clusters, [k \in 1..Len(clusters) |-> clusters[k].RPNScore])

(***************************************************************************)
(* trigram.go: word cloud and key phrases                                  *)
(***************************************************************************)
RECURSIVE CountIn(_, _)
\* the number of occurrences of word w in the keyword sequence ws
CountIn(ws, w) ==
  IF ws = <<>> THEN 0 ELSE (IF Head(ws) = w THEN 1 ELSE 0) + CountIn(Tail(ws), w)

\* wordCounts of CountWordFrequencies (lines 190-197): occurrences over all texts
wordCountsOf(keywords) ==
  [w \in UNION {Range(keywords[t]) : t \in DOMAIN keywords} |->
     SumOver([t \in DOMAIN keywords |-> CountIn(keywords[t], w)], DOMAIN keywords)]
WordCounts(texts) == wordCountsOf([t \in 1..Len(texts) |-> ExtractKeywords(texts[t])])

\* the words CountWordFrequencies keeps (line 202)
frequentIn(wordCounts) == {w \in DOMAIN wordCounts : wordCounts[w] >= 2}
FrequentWords(texts) == frequentIn(WordCounts(texts))

\* CountWordFrequencies; order: the order in which the range over wordCounts
\* (line 201) visits the words it keeps; limit >= 0
\* limitFreqs keeping the last limit entries instead of the first
limitFreqsFromEnd(freqs, limit) ==
  IF Len(freqs) > limit THEN SubSeq(freqs, Len(freqs) - limit + 1, Len(freqs)) ELSE freqs
\* lines 216-219
limitFreqs(freqs, limit) == IF Len(freqs) > limit THEN SubSeq(freqs, 1, limit) ELSE freqs
\* lines 207-214
sortFreqs(freqs) == bubbleSortDesc(freqs, [k \in 1..Len(freqs) |-> freqs[k].Count])
\* lines 200-205
collectFreqs(wordCounts, order) ==
  [k \in 1..Len(order) |-> [Word |-> order[k], Count |-> wordCounts[order[k]]]]
CountWordFrequencies(texts, limit, order) ==
  limitFreqs(sortFreqs(collectFreqs(WordCounts(texts), order)), limit)

RECURSIVE uniqueLoop(_, _, _, _)
\* lines 290-297: the first maxWords distinct words of a scored list
uniqueLoop(words, k, maxWords, result) ==
  IF k > Len(words) THEN result
  ELSE IF words[k] \notin Range(result) /\ Len(result) < maxWords
       THEN uniqueLoop(words, k + 1, maxWords, Append(result, words[k]))
       ELSE uniqueLoop(words, k + 1, maxWords, result)

\* the score ExtractKeyPhrase gives a keyword (lines 269-276)
keyPhraseScoreOf(word, importance) ==
  IF importance[2] THEN importance[1]
  ELSE IF ByteLen(word) > 5 THEN 3
  ELSE IF ByteLen(word) > 3 THEN 2
  ELSE 1
keyPhraseScore(word) == keyPhraseScoreOf(word, Lookup(importantWordsKeyPhrase, word))

\* ExtractKeyPhrase
\* lines 256-299 on the keywords of the text
keyPhraseOf(keywords, maxWords) ==
  IF Len(keywords) = 0 THEN <<>>
  ELSE Join(uniqueLoop(bubbleSortDesc(keywords,
                         [k \in 1..Len(keywords) |-> keyPhraseScore(keywords[k])]),
                       1, maxWords, <<>>))
ExtractKeyPhrase(text, maxWordsArg) ==
  keyPhraseOf(ExtractKeywords(text), IF maxWordsArg <= 0 THEN 5 ELSE maxWordsArg)

\* wordCounts of GetClusterSummary: the number of descriptions a word occurs in
SummaryWordCounts(descriptions) == DocFreq(descriptions)

\* the score GetClusterSummary gives a word (lines 349-356)
summaryScoreOf(word, freq, importance) ==
  freq * (IF importance[2] THEN importance[1] ELSE IF ByteLen(word) > 5 THEN 3 ELSE 1)
summaryScore(word, freq) == summaryScoreOf(word, freq, Lookup(importantWordsSummary, word))

RECURSIVE summaryTake(_, _, _, _)
\* lines 370-373
summaryTake(scored, i, maxWords, result) ==
  IF i <= Len(scored) /\ Len(result) < maxWords
  THEN summaryTake(scored, i + 1, maxWords, Append(result, scored[i]))
  ELSE result

\* lines 375-380 without the fallback of line 377
summaryResultNoFallback(descriptions, maxWords, result) == Join(result)

\* GetClusterSummary; order: the range order of wordCounts (line 348)
\* lines 375-380
summaryResult(descriptions, maxWords, result) ==
  IF Len(result) = 0 THEN ExtractKeyPhrase(descriptions[1], maxWords) ELSE Join(result)
\* lines 348-373
summaryScored(descriptions, maxWords, order, wordCounts) ==
  summaryResult(descriptions, maxWords,
    summaryTake(bubbleSortDesc(order,
                  [k \in 1..Len(order) |-> summaryScore(order[k], wordCounts[order[k]])]),
                1, maxWords, <<>>))
GetClusterSummary(descriptions, maxWords, order) ==
  IF Len(descriptions) = 0 THEN <<>>
  ELSE summaryScored(descriptions, maxWords, order, SummaryWordCounts(descriptions))

RECURSIVE nonEmptyDescriptions(_, _)
\* cluster.go lines 205-210
nonEmptyDescriptions(ps, k) ==
  IF k > Len(ps) THEN <<>>
  ELSE IF ps[k].DeskripsiMasalah # <<>>
       THEN <<ps[k].DeskripsiMasalah>> \o nonEmptyDescriptions(ps, k + 1)
       ELSE nonEmptyDescriptions(ps, k + 1)

\* the keys of the wordCounts map GetClusterKeyPhrase's call of GetClusterSummary ranges over
KeyPhraseWords(c) == DOMAIN SummaryWordCounts(nonEmptyDescriptions(c.Problems, 1))

\* Cluster.GetClusterKeyPhrase; order: the range order of GetClusterSummary's map
GetClusterKeyPhrase(c, maxWords, order) ==
  IF Len(c.Problems) = 0 THEN <<>>
  ELSE GetClusterSummary(nonEmptyDescriptions(c.Problems, 1), maxWords, order)

(***************************************************************************)
(* service.go: the Service and its request handlers                        *)
(***************************************************************************)
\* bounds of the model: rows in the table, the largest limit a client passes,
\* rows in the table two concurrent requests share
MaxRows == 3
MaxLimit == 2
MaxSharedRows == 2
\* the days on which requests are served
ClockDays == {0, 200}

\* texts stored in ncr_approvals.deskripsi_masalah
txtKacaPecah == <<"k","a","c","a"," ","p","e","c","a","h">>
txtKacaRetak == <<"k","a","c","a"," ","r","e","t","a","k">>
txtWarnaCat == <<"w","a","r","n","a"," ","c","a","t">>
txtBlank == <<" "," ">>
txtEmpty == <<>>

\* rows of ncr_approvals: text, tanggal, kategori
RowPool ==
  { [DeskripsiMasalah |-> txtKacaPecah, Tanggal |-> NilTime, Kategori |-> "A"],
    [DeskripsiMasalah |-> txtBlank, Tanggal |-> <<0>>, Kategori |-> "B"],
    [DeskripsiMasalah |-> txtKacaRetak, Tanggal |-> <<0 - 365>>, Kategori |-> "B"],
    [DeskripsiMasalah |-> txtEmpty, Tanggal |-> NilTime, Kategori |-> "B"] }

\* the tables the database may hold: up to MaxRows rows, the row at position k has id k
Tables == UNION {[1..n -> RowPool] : n \in 0..MaxRows}

\* the tables concurrent requests are served from
SharedRowPool ==
  { [DeskripsiMasalah |-> txtKacaPecah, Tanggal |-> NilTime, Kategori |-> "A"],
    [DeskripsiMasalah |-> txtWarnaCat, Tanggal |-> <<0>>, Kategori |-> "B"] }
SharedTables == UNION {[1..n -> SharedRowPool] : n \in 0..MaxSharedRows}

ReqIds == {"r1", "r2"}
\* the calls a client may make: handler and limit (GetRankingDebugInfo takes no limit)
Calls == {<<kind, limit>> : kind \in {"rank", "wordcloud"}, limit \in 0..MaxLimit}
           \cup {<<"debug", 0>>}
\* the calls concurrent clients make
SharedCalls == {<<"rank", MaxLimit>>, <<"wordcloud", MaxLimit>>, <<"debug", 0>>}

VARIABLES
  service,  \* the Service: rpnConfig and threshold
  db,       \* the rows of ncr_approvals
  clock,    \* the day time.Now() returns
  req,      \* per request in flight: the locals of its handler
  call      \* a direct call of a core function: fn, arg, ret, pc

vars == <<service, db, clock, req, call>>

\* NewService: threshold 0.15 in SCALE units
NewService == [rpnConfig |-> DefaultRPNConfig, threshold |-> 1500]

RECURSIVE fetchLoop(_, _)
\* the WHERE clause of line 90 and the conversion of lines 101-112
fetchLoop(rows, k) ==
  IF k > Len(rows) THEN <<>>
  ELSE IF rows[k].DeskripsiMasalah # <<>>
       THEN <<NewProblemData(k, rows[k].DeskripsiMasalah, rows[k].Tanggal, rows[k].Kategori)>>
              \o fetchLoop(rows, k + 1)
       ELSE fetchLoop(rows, k + 1)
\* fetchProblems with empty filters: a fresh slice per call
fetchProblems(rows) == fetchLoop(rows, 1)

\* the locals of a handler that has not started
IdleRequest ==
  [pc |-> "idle", kind |-> "none", limit |-> 0, problems |-> <<>>, clusters |-> <<>>,
   n |-> 0, i |-> 0, stats |-> ZeroClusterStats, result |-> <<>>, err |-> "unset",
   calls |-> {}, clocks |-> <<>>]

NoCall == [fn |-> "none", arg |-> <<>>, ret |-> <<>>, pc |-> "none"]

\* one client, any table
InitSingle ==
  /\ service = NewService
  /\ db \in Tables
  /\ clock = 0
  /\ req = [r \in ReqIds |-> IdleRequest]
  /\ call = NoCall

\* concurrent clients of one table
Init ==
  /\ service = NewService
  /\ db \in SharedTables
  /\ clock = 0
  /\ req = [r \in ReqIds |-> IdleRequest]
  /\ call = NoCall

\* the frame of request r: the local variables of its handler invocation
Frame(r) == req[r]

\* time passes
Tick ==
  /\ \E day \in ClockDays : day > clock /\ clock' = day
  /\ UNCHANGED <<service, db, req, call>>

\* a handler starts and fetchProblems returns the rows (lines 131, 174, 209)
Fetch(r, kind, limit) ==
  /\ Frame(r).pc = "idle"
  /\ req' = [req EXCEPT ![r] = [Frame(r) EXCEPT !.pc = "fetched", !.kind = kind, !.limit = limit,
                                               !.problems = fetchProblems(db)]]
  /\ UNCHANGED <<service, db, clock, call>>

\* a handler starts and the query fails (lines 132-134, 175-177, 210-212)
FetchError(r, kind, limit) ==
  /\ Frame(r).pc = "idle"
  /\ req' = [req EXCEPT ![r] = [Frame(r) EXCEPT !.pc = "done", !.kind = kind, !.limit = limit,
                                               !.err = "error"]]
  /\ UNCHANGED <<service, db, clock, call>>

\* a test of line 136 that never takes the early return
NoProblemsNever(problems) == FALSE
\* the test of line 136
NoProblems(problems) == Len(problems) = 0

\* GetTopProblemsWithStats lines 136-138
RankEmpty(r) ==
  /\ Frame(r).pc = "fetched" /\ Frame(r).kind = "rank"
  /\ NoProblems(Frame(r).problems)
  /\ req' = [req EXCEPT ![r] = [Frame(r) EXCEPT !.pc = "done", !.result = <<>>,
                                               !.stats = ZeroClusterStats, !.err = "nil"]]
  /\ UNCHANGED <<service, db, clock, call>>

\* GetTopProblemsWithStats line 141
RankCluster(r) ==
  /\ Frame(r).pc = "fetched" /\ Frame(r).kind = "rank"
  /\ ~NoProblems(Frame(r).problems)
  /\ \E words \in {FitWords(Descriptions(Frame(r).problems))} :
     \E fitOrder \in MapOrders(words) :
     \E formed \in {clusterWith(Frame(r).problems, service.threshold, fitOrder)} :
     \E termsOrder \in MapOrders(words) :
     \E out \in {clusterStats(formed, service.threshold, termsOrder)} :
       req' = [req EXCEPT ![r] = [Frame(r) EXCEPT !.pc = "score", !.problems = out.problems,
                 !.clusters = out.clusters, !.n = Len(out.clusters), !.stats = out.stats,
                 !.i = 0,
                 !.calls = @ \cup {"ClusterDescriptionsSemanticWithStats"}]]
  /\ UNCHANGED <<service, db, clock, call>>

\* the loop of lines 144-147 on a cluster set the Service keeps for all its requests:
\* the scored cluster is stored for every request that is scoring
RankScoreShared(r) ==
  /\ Frame(r).pc = "score"
  /\ Frame(r).i < Frame(r).n
  /\ LET k == Frame(r).i + 1
     IN \E scored \in {CalculateRPN(SelectCentroid(Frame(r).clusters[k]),
                                     service.rpnConfig, clock)} :
          req' = [q \in ReqIds |->
                    IF q = r
                    THEN [Frame(r) EXCEPT !.clusters[k] = scored, !.i = k,
                            !.clocks = Append(@, clock),
                            !.calls = @ \cup {"SelectCentroid", "CalculateRPN"}]
                    ELSE IF req[q].pc = "score" /\ k <= Len(req[q].clusters)
                         THEN [req[q] EXCEPT !.clusters[k] = scored]
                         ELSE req[q]]
  /\ UNCHANGED <<service, db, clock, call>>

\* one iteration of the loop of lines 144-147: time.Now() is read once per cluster
RankScore(r) ==
  /\ Frame(r).pc = "score"
  /\ Frame(r).i < Frame(r).n
  /\ LET k == Frame(r).i + 1
         scored == CalculateRPN(SelectCentroid(Frame(r).clusters[k]), service.rpnConfig, clock)
     IN req' = [req EXCEPT ![r] = [Frame(r) EXCEPT !.clusters[k] = scored, !.i = k,
                  !.clocks = Append(@, clock),
                  !.calls = @ \cup {"SelectCentroid", "CalculateRPN"}]]
  /\ UNCHANGED <<service, db, clock, call>>

\* lines 150-156 without the call of line 150
RankSortUnsorted(r) ==
  /\ Frame(r).pc = "score"
  /\ Frame(r).i = Frame(r).n
  /\ req' = [req EXCEPT ![r] = [Frame(r) EXCEPT !.pc = "output",
               !.n = IF Frame(r).n > Frame(r).limit THEN Frame(r).limit ELSE Frame(r).n,
               !.i = 0, !.result = <<>>]]
  /\ UNCHANGED <<service, db, clock, call>>

\* lines 150-156: clusters is the backing array, n the length of the slice kept
RankSort(r) ==
  /\ Frame(r).pc = "score"
  /\ Frame(r).i = Frame(r).n
  /\ req' = [req EXCEPT ![r] = [Frame(r) EXCEPT !.pc = "output",
               !.clusters = SortClustersByRPN(Frame(r).clusters),
               !.n = IF Frame(r).n > Frame(r).limit THEN Frame(r).limit ELSE Frame(r).n,
               !.i = 0, !.result = <<>>,
               !.calls = @ \cup {"SortClustersByRPN"}]]
  /\ UNCHANGED <<service, db, clock, call>>

\* RankedProblem for the cluster at position k (lines 158-166)
MakeRankedProblem(k, c, stats, kategoriOrder, wordsOrder) ==
  [Rank |-> k,
   Description |-> GetClusterKeyPhrase(c, 4, wordsOrder),
   Frequency |-> Len(c.Problems),
   RPNScore |-> c.RPNScore,
   Kategori |-> GetMostCommonKategori(c, kategoriOrder),
   SampleIDs |-> GetSampleIDs(c),
   AlgorithmInfo |-> <<"Vocab", stats.VocabularySize, "Cluster size", Len(c.Problems)>>]

\* one iteration of the loop of lines 157-167
RankOutput(r) ==
  /\ Frame(r).pc = "output"
  /\ Frame(r).i < Frame(r).n
  /\ LET k == Frame(r).i + 1
         c == Frame(r).clusters[k]
     IN \E kategoriOrder \in MapOrders(DOMAIN KategoriCount(c)) :
        \E wordsOrder \in MapOrders(KeyPhraseWords(c)) :
          req' = [req EXCEPT ![r] = [Frame(r) EXCEPT !.i = k,
                    !.result = Append(@, MakeRankedProblem(k, c, Frame(r).stats,
                                                           kategoriOrder, wordsOrder))]]
  /\ UNCHANGED <<service, db, clock, call>>

\* line 169
RankReturn(r) ==
  /\ Frame(r).pc = "output"
  /\ Frame(r).i = Frame(r).n
  /\ req' = [req EXCEPT ![r] = [Frame(r) EXCEPT !.pc = "done", !.err = "nil"]]
  /\ UNCHANGED <<service, db, clock, call>>

\* GetWordCloud lines 179-186
WordCloud(r) ==
  /\ Frame(r).pc = "fetched" /\ Frame(r).kind = "wordcloud"
  /\ LET texts == Descriptions(Frame(r).problems)
     IN \E order \in MapOrders(FrequentWords(texts)) :
          req' = [req EXCEPT ![r] = [Frame(r) EXCEPT !.pc = "done",
                    !.result = CountWordFrequencies(texts, Frame(r).limit, order),
                    !.err = "nil"]]
  /\ UNCHANGED <<service, db, clock, call>>

RECURSIVE takeBytes(_, _)
\* s[:maxLen]: the runes that fit whole into the first maxLen bytes, then the
\* fragment of a rune the cut splits
takeBytes(s, maxLen) ==
  IF s = <<>> \/ maxLen <= 0 THEN <<>>
  ELSE IF RuneBytes(Head(s)) <= maxLen
       THEN <<Head(s)>> \o takeBytes(Tail(s), maxLen - RuneBytes(Head(s)))
       ELSE <<"FRAGMENT">>
truncateString(s, maxLen) ==
  IF ByteLen(s) <= maxLen THEN s ELSE takeBytes(s, maxLen) \o <<".", ".", ".">>

\* GetRankingDebugInfo lines 214-216
DebugEmpty(r) ==
  /\ Frame(r).pc = "fetched" /\ Frame(r).kind = "debug"
  /\ Len(Frame(r).problems) = 0
  /\ req' = [req EXCEPT ![r] = [Frame(r) EXCEPT !.pc = "done",
               !.result = [Stats |-> ZeroClusterStats, SimilarityPairs |-> <<>>],
               !.err = "nil"]]
  /\ UNCHANGED <<service, db, clock, call>>

\* GetRankingDebugInfo line 219
DebugStats(r) ==
  /\ Frame(r).pc = "fetched" /\ Frame(r).kind = "debug"
  /\ Len(Frame(r).problems) # 0
  /\ \E words \in {FitWords(Descriptions(Frame(r).problems))} :
     \E fitOrder \in MapOrders(words) :
     \E formed \in {clusterWith(Frame(r).problems, service.threshold, fitOrder)} :
     \E termsOrder \in MapOrders(words) :
     \E out \in {clusterStats(formed, service.threshold, termsOrder)} :
       req' = [req EXCEPT ![r] = [Frame(r) EXCEPT !.pc = "pairs", !.problems = out.problems,
                 !.stats = out.stats,
                 !.calls = @ \cup {"ClusterDescriptionsSemanticWithStats"}]]
  /\ UNCHANGED <<service, db, clock, call>>

\* the weights of line 248, in SCALE units
DebugTrigramWeight == 2500
DebugLCSWeight == 1500
DebugTFIDFWeight == 6000

\* the pair of lines 245-259
debugPairOf(p1, p2, trigramSim, lcsSim, tfidfSim) ==
  [Problem1ID |-> p1.ID, Problem1 |-> truncateString(p1.DeskripsiMasalah, 50),
   Problem2ID |-> p2.ID, Problem2 |-> truncateString(p2.DeskripsiMasalah, 50),
   TrigramSim |-> trigramSim, LCSSim |-> lcsSim, TFIDFSim |-> tfidfSim,
   CombinedSim |-> (trigramSim * DebugTrigramWeight) + (lcsSim * DebugLCSWeight)
                     + (tfidfSim * DebugTFIDFWeight)]
DebugPair(problems, i, j) ==
  debugPairOf(problems[i], problems[j],
              CalculateSimilarity(TrigramsOf(problems[i]), TrigramsOf(problems[j])),
              CalculateLCSSimilarity(problems[i].DeskripsiMasalah, problems[j].DeskripsiMasalah),
              CosineSimilarity(problems[i].TFIDFVector, problems[j].TFIDFVector))

RECURSIVE debugPairs(_, _, _, _)
\* lines 243-261: the pairs (i, j), i < j, of the first limit problems, row by row
debugPairs(problems, limit, i, j) ==
  IF i > limit THEN <<>>
  ELSE IF j > limit THEN debugPairs(problems, limit, i + 1, i + 2)
  ELSE <<DebugPair(problems, i, j)>> \o debugPairs(problems, limit, i, j + 1)

\* GetRankingDebugInfo lines 222-266
DebugPairs(r) ==
  /\ Frame(r).pc = "pairs"
  /\ \E fitOrder \in MapOrders(FitWords(Descriptions(Frame(r).problems))) :
     \E problems \in {Precompute(Frame(r).problems,
                                  NewSemanticSimilarity(Descriptions(Frame(r).problems),
                                                        fitOrder))} :
       LET limit == IF Len(problems) < 10 THEN Len(problems) ELSE 10
       IN req' = [req EXCEPT ![r] = [Frame(r) EXCEPT !.pc = "done", !.problems = problems,
                    !.result = [Stats |-> Frame(r).stats,
                                SimilarityPairs |-> debugPairs(problems, limit, 1, 2)],
                    !.err = "nil"]]
  /\ UNCHANGED <<service, db, clock, call>>

\* a client calls a handler: the invocation r starts
Start(r, calls) ==
  \/ \E c \in calls : Fetch(r, c[1], c[2])
  \/ \E c \in calls : FetchError(r, c[1], c[2])

\* the steps of the handler invocation r
Handler(r) ==
  \/ RankEmpty(r)
  \/ RankCluster(r)
  \/ RankScore(r)
  \/ RankSort(r)
  \/ RankOutput(r)
  \/ RankReturn(r)
  \/ WordCloud(r)
  \/ DebugEmpty(r)
  \/ DebugStats(r)
  \/ DebugPairs(r)

\* requests served concurrently
Next ==
  \/ Tick
  \/ \E r \in ReqIds : Start(r, SharedCalls)
  \/ \E r \in ReqIds : Handler(r)

Spec == Init /\ [][Next]_vars

\* one request at a time
NextSingle ==
  \/ Tick
  \/ Start("r1", Calls)
  \/ Handler("r1")

SpecSingle == InitSingle /\ [][NextSingle]_vars

(***************************************************************************)
(* Direct calls of the package's functions: the argument is drawn from a   *)
(* bounded set, one step applies the function and keeps what it returns.   *)
(***************************************************************************)
\* bounds: items in a corpus, members of a uniformly dated cluster, members of a
\* cluster of mixed dates, clusters in a slice to sort
MaxCorpus == 3
MaxMembers == 10
MaxMixed == 3
MaxClusters == 4

txtAb == <<"a","b">>
txtKacaPecahLoud == <<"K","a","c","a"," "," ","P","e","c","a","h","!">>
\* descriptions: empty, blank, too short for a keyword, and ordinary ones
CoreTexts == {txtEmpty, txtBlank, txtAb, txtKacaPecah, txtKacaRetak, txtKacaPecahLoud}

\* thresholds as float64 in SCALE units: 0, the service's 0.15, and 1.1
Thresholds == {0, 1500, 11000}

\* a corpus: item k has id k
Corpora ==
  UNION {{[k \in 1..n |-> NewProblemData(k, texts[k], NilTime, "")] :
            texts \in [1..n -> CoreTexts]} : n \in 0..MaxCorpus}

\* a founder that shares one keyword with each of two items that share none
txtKaca == <<"k","a","c","a">>
txtPecah == <<"p","e","c","a","h">>
ChainCorpus ==
  [k \in 1..3 |-> NewProblemData(k, <<txtKacaPecah, txtKaca, txtPecah>>[k], NilTime, "")]

\* the thresholds it is clustered at: those above and -0.1
ChainThresholds == Thresholds \cup {0 - 1000}

\* dates of members: none, day 0, a day in the future, a day a year back
DatePool == {NilTime, <<0>>, <<400>>, <<0 - 365>>}
\* the days on which time.Now() is read
Nows == {0, 200}

\* clusters to score: every mix of dates up to MaxMixed members, and clusters of up
\* to MaxMembers members of one date
DatedClusters ==
  UNION {{NewCluster([k \in 1..n |-> NewProblemData(k, txtKacaPecah, dates[k], "")]) :
            dates \in [1..n -> DatePool]} : n \in 0..MaxMixed}
  \cup
  {NewCluster([k \in 1..n |-> NewProblemData(k, txtKacaPecah, d, "")]) :
     n \in 1..MaxMembers, d \in DatePool}

\* RPN scores of the clusters to sort, in SCALE units
ScorePool == {0, 380600, 1000000}
\* slices to sort: the cluster at position k holds the item with id k
ScoredSlices ==
  UNION {{[k \in 1..n |-> [NewCluster(<<NewProblemData(k, txtKacaPecah, NilTime, "")>>)
                             EXCEPT !.RPNScore = scores[k]]] :
            scores \in [1..n -> ScorePool]} : n \in 0..MaxClusters}

NewCall(fn, arg) == [fn |-> fn, arg |-> arg, ret |-> <<>>, pc |-> "call"]

CoreCalls ==
  {NewCall("cluster", [problems |-> c, threshold |-> t]) : c \in Corpora, t \in Thresholds}
  \cup {NewCall("cluster", [problems |-> ChainCorpus, threshold |-> t]) : t \in ChainThresholds}
  \cup {NewCall("rpn", [cluster |-> c, now |-> d]) : c \in DatedClusters, d \in Nows}
  \cup {NewCall("sort", s) : s \in ScoredSlices}
  \cup {NewCall("samples", [cluster |-> c]) : c \in DatedClusters}

InitCore ==
  /\ service = NewService
  /\ db = <<>>
  /\ clock = 0
  /\ req = [r \in ReqIds |-> IdleRequest]
  /\ call \in CoreCalls

\* ClusterDescriptionsSemanticWithStats(arg.problems, arg.threshold)
CoreCluster ==
  /\ call.pc = "call" /\ call.fn = "cluster"
  /\ \E fitOrder \in MapOrders(FitWords(Descriptions(call.arg.problems))) :
     \E termsOrder \in MapOrders(FitWords(Descriptions(call.arg.problems))) :
       call' = [call EXCEPT !.pc = "done",
                  !.ret = ClusterDescriptionsSemanticWithStats(
                            call.arg.problems, call.arg.threshold, fitOrder, termsOrder)]
  /\ UNCHANGED <<service, db, clock, req>>

\* CalculateRPN(&arg.cluster, DefaultRPNConfig()) on the day arg.now
CoreCalculateRPN ==
  /\ call.pc = "call" /\ call.fn = "rpn"
  /\ call' = [call EXCEPT !.pc = "done",
                !.ret = CalculateRPN(call.arg.cluster, DefaultRPNConfig, call.arg.now)]
  /\ UNCHANGED <<service, db, clock, req>>

\* SortClustersByRPN(arg)
CoreSort ==
  /\ call.pc = "call" /\ call.fn = "sort"
  /\ call' = [call EXCEPT !.pc = "done", !.ret = SortClustersByRPN(call.arg)]
  /\ UNCHANGED <<service, db, clock, req>>

\* arg.cluster.GetSampleIDs()
CoreSampleIDs ==
  /\ call.pc = "call" /\ call.fn = "samples"
  /\ call' = [call EXCEPT !.pc = "done", !.ret = GetSampleIDs(call.arg.cluster)]
  /\ UNCHANGED <<service, db, clock, req>>

NextCore ==
  \/ CoreCluster
  \/ CoreCalculateRPN
  \/ CoreSort
  \/ CoreSampleIDs

SpecCore == InitCore /\ [][NextCore]_vars

(***************************************************************************)
(* Properties of the clusterer, the scorer and the sort (SpecCore)         *)
(***************************************************************************)
\* the ids of the members of a cluster, in order
MemberIDs(c) == [k \in 1..Len(c.Problems) |-> c.Problems[k].ID]
\* the places <<cluster, position>> at which the item with this id occurs
Places(clusters, id) ==
  UNION {{<<c, k>> : k \in {m \in 1..Len(clusters[c].Problems) :
                              clusters[c].Problems[m].ID = id}} : c \in 1..Len(clusters)}
\* the sum of the cluster sizes
TotalSize(clusters) ==
  SumOver([c \in 1..Len(clusters) |-> Len(clusters[c].Problems)], 1..Len(clusters))

ClusterDone == call.fn = "cluster" /\ call.pc = "done"
RpnDone == call.fn = "rpn" /\ call.pc = "done"
SortDone == call.fn = "sort" /\ call.pc = "done"

\* C1: for every corpus and threshold the clusters returned are a partition of the
\* input: every input item is at exactly one place of exactly one cluster, every
\* member is an input item, and the cluster sizes sum to the corpus size
C1_Partition ==
  ClusterDone =>
    /\ \A i \in 1..Len(call.arg.problems) :
         Cardinality(Places(call.ret.clusters, call.arg.problems[i].ID)) = 1
    /\ \A c \in 1..Len(call.ret.clusters) : \A k \in 1..Len(call.ret.clusters[c].Problems) :
         \E i \in 1..Len(call.arg.problems) :
           /\ call.ret.clusters[c].Problems[k].ID = call.arg.problems[i].ID
           /\ call.ret.clusters[c].Problems[k].DeskripsiMasalah
                = call.arg.problems[i].DeskripsiMasalah
    /\ TotalSize(call.ret.clusters) = Len(call.arg.problems)

\* a corpus of three or more items split into several clusters, one of which took in
\* an item that does not follow its founder directly
C1_Witness ==
  /\ ClusterDone
  /\ Len(call.arg.problems) >= 3
  /\ Len(call.ret.clusters) >= 2
  /\ \E c \in 1..Len(call.ret.clusters) :
       /\ Len(call.ret.clusters[c].Problems) >= 2
       /\ MemberIDs(call.ret.clusters[c])[2] > MemberIDs(call.ret.clusters[c])[1] + 1

\* C3: a cluster of one or more members, of any mix of dated, undated and
\* future-dated members, scored with the default configuration has an RPNScore in
\* the closed interval [0, 100]
C3_RPNInRange ==
  (RpnDone /\ Len(call.arg.cluster.Problems) >= 1) =>
    /\ 0 <= call.ret.RPNScore
    /\ call.ret.RPNScore <= 100 * SCALE

\* ten or more members all dated in the future: the weighted sum exceeds 100 and the
\* score is the clamp's bound
C3_Witness ==
  /\ RpnDone
  /\ Len(call.arg.cluster.Problems) >= 10
  /\ \A k \in 1..Len(call.arg.cluster.Problems) : call.arg.cluster.Problems[k].Tanggal = <<400>>
  /\ call.ret.RPNScore = 100 * SCALE

\* the position of a cluster in the slice before the sort
PositionIn(s, c) == CHOOSE k \in 1..Len(s) : s[k] = c

\* C4: SortClustersByRPN leaves the same clusters in descending order of RPNScore
\* (none is followed by one of strictly higher score), and clusters of equal score
\* keep the relative order they had before the sort
C4_SortedStable ==
  SortDone =>
    /\ Len(call.ret) = Len(call.arg)
    /\ Range(call.ret) = Range(call.arg)
    /\ \A i \in 1..Len(call.ret) : \A j \in 1..Len(call.ret) :
         i < j => /\ call.ret[i].RPNScore >= call.ret[j].RPNScore
                  /\ (call.ret[i].RPNScore = call.ret[j].RPNScore
                        => PositionIn(call.arg, call.ret[i]) < PositionIn(call.arg, call.ret[j]))

\* a slice that is out of order and holds two clusters of equal score that the sort
\* has to move past a third
C4_Witness ==
  /\ SortDone
  /\ call.ret # call.arg
  /\ \E i \in 1..Len(call.arg) : \E j \in 1..Len(call.arg) : \E k \in 1..Len(call.arg) :
       /\ i < j /\ j < k
       /\ call.arg[i].RPNScore = call.arg[j].RPNScore
       /\ call.arg[i].RPNScore < call.arg[k].RPNScore

\* the item yields no keywords
Keywordless(p) == Len(ExtractKeywords(p.DeskripsiMasalah)) = 0
\* the trigram and TF-IDF similarities of the items i and j, from the caches the
\* clusterer filled
TrigramSimOf(problems, i, j) ==
  CalculateSimilarity(TrigramsOf(problems[i]), TrigramsOf(problems[j]))
TFIDFSimOf(problems, i, j) ==
  CosineSimilarity(problems[i].TFIDFVector, problems[j].TFIDFVector)

\* C9 as stated: an item that yields no keywords has zero trigram similarity and zero
\* TF-IDF similarity to every other item, another such item included, is in exactly
\* one cluster, and the cluster sizes sum to the corpus size
C9_ZeroContribution ==
  ClusterDone =>
    /\ \A i \in 1..Len(call.ret.problems) :
         Keywordless(call.ret.problems[i]) =>
           /\ \A j \in 1..Len(call.ret.problems) \ {i} :
                /\ TrigramSimOf(call.ret.problems, i, j) = 0
                /\ TFIDFSimOf(call.ret.problems, i, j) = 0
           /\ Cardinality(Places(call.ret.clusters, call.ret.problems[i].ID)) = 1
    /\ TotalSize(call.ret.clusters) = Len(call.arg.problems)

\* C9 amended: an item that yields no keywords has zero TF-IDF similarity to every
\* other item; when its trigram set is empty its trigram similarity is zero to every
\* item with a non-empty trigram set and 1.0 to every other item with an empty one;
\* it is in exactly one cluster, and the cluster sizes sum to the corpus size
C9_KeywordlessItems ==
  ClusterDone =>
    /\ \A i \in 1..Len(call.ret.problems) :
         Keywordless(call.ret.problems[i]) =>
           /\ \A j \in 1..Len(call.ret.problems) \ {i} :
                /\ TFIDFSimOf(call.ret.problems, i, j) = 0
                /\ TrigramsOf(call.ret.problems[i]) = {} =>
                     TrigramSimOf(call.ret.problems, i, j)
                       = (IF TrigramsOf(call.ret.problems[j]) = {} THEN SCALE ELSE 0)
           /\ Cardinality(Places(call.ret.clusters, call.ret.problems[i].ID)) = 1
    /\ TotalSize(call.ret.clusters) = Len(call.arg.problems)

\* two items without text and one with keywords, clustered at the service's threshold
C9_Witness ==
  /\ ClusterDone
  /\ call.arg.threshold = 1500
  /\ \E i \in 1..Len(call.ret.problems) : \E j \in 1..Len(call.ret.problems) :
     \E k \in 1..Len(call.ret.problems) :
       /\ i # j
       /\ TrigramsOf(call.ret.problems[i]) = {} /\ TrigramsOf(call.ret.problems[j]) = {}
       /\ Keywordless(call.ret.problems[i]) /\ Keywordless(call.ret.problems[j])
       /\ ~Keywordless(call.ret.problems[k])

(***************************************************************************)
(* Properties of one ranking request (SpecSingle)                          *)
(***************************************************************************)
\* the request has returned a ranked list
RankDone(r) == req[r].pc = "done" /\ req[r].kind = "rank" /\ req[r].err = "nil"

\* the positions of the clusters of request r that SelectCentroid has run on
Selected(r) ==
  IF req[r].pc = "score" THEN 1..req[r].i
  ELSE IF req[r].pc \in {"output", "done"} /\ req[r].kind = "rank" THEN 1..Len(req[r].clusters)
  ELSE {}

\* C2: once SelectCentroid has run on a cluster the clusterer produced, and from then
\* on through CalculateRPN, the sort and the truncation, the cluster is non-empty,
\* 0 <= CentroidIdx < len(Problems), and GetCentroidDescription returns the text of
\* the member at that index
C2_CentroidInRange ==
  \A r \in ReqIds : \A k \in Selected(r) :
    /\ Len(req[r].clusters[k].Problems) >= 1
    /\ 0 <= req[r].clusters[k].CentroidIdx
    /\ req[r].clusters[k].CentroidIdx < Len(req[r].clusters[k].Problems)
    /\ IndexInRange(req[r].clusters[k], req[r].clusters[k].CentroidIdx)
    /\ GetCentroidDescription(req[r].clusters[k])
         = req[r].clusters[k].Problems[req[r].clusters[k].CentroidIdx + 1].DeskripsiMasalah

\* a request has returned a cluster whose centroid is not its founder
C2_Witness ==
  /\ RankDone("r1")
  /\ \E k \in 1..req["r1"].n :
       /\ Len(req["r1"].clusters[k].Problems) >= 3
       /\ req["r1"].clusters[k].CentroidIdx >= 1

\* C8: for any limit >= 0 the request returns min(limit, number of clusters) ranked
\* problems, in non-increasing order of RPN, none of the clusters left out has a
\* strictly higher RPN than one returned, Rank is the 1-based position and Frequency
\* the member count of the cluster
C8_TopN ==
  \A r \in ReqIds :
    RankDone(r) =>
      /\ req[r].limit >= 0
      /\ Len(req[r].result) = Min2(req[r].limit, Len(req[r].clusters))
      /\ \A k \in 1..Len(req[r].result) :
           /\ req[r].result[k].Rank = k
           /\ req[r].result[k].Frequency = Len(req[r].clusters[k].Problems)
           /\ req[r].result[k].SampleIDs = GetSampleIDs(req[r].clusters[k])
           /\ req[r].result[k].RPNScore = req[r].clusters[k].RPNScore
           /\ \A m \in 1..Len(req[r].result) :
                k < m => req[r].result[k].RPNScore >= req[r].result[m].RPNScore
           /\ \A m \in (Len(req[r].result) + 1)..Len(req[r].clusters) :
                req[r].clusters[m].RPNScore <= req[r].result[k].RPNScore
      /\ TotalSize(req[r].clusters) = Len(fetchProblems(db))

\* the limit cuts the list, and the sort has moved a later cluster to the front
C8_Witness ==
  /\ RankDone("r1")
  /\ req["r1"].limit >= 1
  /\ Len(req["r1"].clusters) > req["r1"].limit
  /\ req["r1"].result[1].SampleIDs[1] > 1
  /\ req["r1"].result[1].Frequency >= 2

\* C10: a ranking request on an empty corpus whose query succeeds returns an empty
\* list, a ClusterStats of zero values and a nil error, and calls neither the
\* clusterer nor SelectCentroid nor CalculateRPN
C10_EmptyCorpus ==
  \A r \in ReqIds :
    (req[r].pc = "done" /\ req[r].kind = "rank" /\ req[r].err # "error"
       /\ Len(fetchProblems(db)) = 0) =>
      /\ req[r].result = <<>>
      /\ req[r].stats = ZeroClusterStats
      /\ req[r].err = "nil"
      /\ req[r].calls = {}

\* a ranking request has returned on a table whose rows all have an empty description
C10_Witness ==
  /\ RankDone("r1")
  /\ Len(db) >= 1
  /\ Len(fetchProblems(db)) = 0

(***************************************************************************)
(* Properties of requests served from the same table (Spec)                *)
(***************************************************************************)
\* the two requests are runs of the ranking pipeline on the same corpus and limit
SameRanking(r, q) == r # q /\ RankDone(r) /\ RankDone(q) /\ req[r].limit = req[q].limit

\* the members of every cluster, and the centroid of every cluster
Membership(r) == {MemberIDs(req[r].clusters[k]) : k \in 1..Len(req[r].clusters)}
CentroidChoice(r) ==
  {<<MemberIDs(req[r].clusters[k]), req[r].clusters[k].CentroidIdx>> :
     k \in 1..Len(req[r].clusters)}
\* the ranked clusters in the order returned
Ordering(r) == [k \in 1..Len(req[r].result) |-> req[r].result[k].SampleIDs]

\* C5: two runs of GetTopProblemsWithStats on the same corpus and filters have the
\* same cluster membership, the same centroid in every cluster and the same order of
\* the ranked clusters
C5_Idempotent ==
  \A r \in ReqIds : \A q \in ReqIds :
    SameRanking(r, q) =>
      /\ Membership(r) = Membership(q)
      /\ CentroidChoice(r) = CentroidChoice(q)
      /\ Ordering(r) = Ordering(q)

\* the two requests are runs of the same handler on the same corpus and limit
SameCall(r, q) ==
  /\ r # q
  /\ req[r].pc = "done" /\ req[q].pc = "done"
  /\ req[r].err = "nil" /\ req[q].err = "nil"
  /\ req[r].kind = req[q].kind /\ req[r].kind \in {"rank", "wordcloud"}
  /\ req[r].limit = req[q].limit

\* C6: for the same corpus and limit every run returns the same ranked problems
\* (description, category, rpnScore), the same TopTerms and the same word cloud
C6_Deterministic ==
  \A r \in ReqIds : \A q \in ReqIds :
    SameCall(r, q) =>
      /\ req[r].result = req[q].result
      /\ req[r].stats.TopTerms = req[q].stats.TopTerms

\* lines 144-147 run without interruption: cluster k is scored on the day clocks[k]
scoreAll(clusters, config, clocks) ==
  [k \in 1..Len(clusters) |-> CalculateRPN(SelectCentroid(clusters[k]), config, clocks[k])]
\* lines 157-167: the list is one the loop can build from the sorted clusters
rankedFrom(result, sorted, limit, stats) ==
  /\ Len(result) = Min2(limit, Len(sorted))
  /\ \A k \in 1..Len(result) :
       \E kategoriOrder \in MapOrders(DOMAIN KategoriCount(sorted[k])) :
       \E wordsOrder \in MapOrders(KeyPhraseWords(sorted[k])) :
         result[k] = MakeRankedProblem(k, sorted[k], stats, kategoriOrder, wordsOrder)
\* lines 141-169 on the outcome of the clusterer
rankedAlone(f, out, config) ==
  /\ f.stats = out.stats
  /\ Len(f.clocks) = Len(out.clusters)
  /\ \E sorted \in {SortClustersByRPN(scoreAll(out.clusters, config, f.clocks))} :
       rankedFrom(f.result, sorted, f.limit, out.stats)
\* the orders in which the map of Fit may be ranged over, and one of them
fitOrders(problems) == MapOrders(FitWords(Descriptions(problems)))
someFitOrder(problems) == CHOOSE order \in fitOrders(problems) : TRUE

\* GetTopProblemsWithStats run alone on the rows: the frame f holds a result the
\* handler can return when nothing else runs, with the clock read on the days f.clocks
RankAlone(f, rows, svc) ==
  IF Len(fetchProblems(rows)) = 0
  THEN f.result = <<>> /\ f.stats = ZeroClusterStats
  ELSE \E problems \in {fetchProblems(rows)} :
       \E formed \in {clusterWith(problems, svc.threshold, someFitOrder(problems))} :
       \E termsOrder \in fitOrders(problems) :
       \E out \in {clusterStats(formed, svc.threshold, termsOrder)} :
         rankedAlone(f, out, svc.rpnConfig)

\* GetWordCloud run alone on the rows
WordCloudAlone(f, rows) ==
  \E order \in MapOrders(FrequentWords(Descriptions(fetchProblems(rows)))) :
    f.result = CountWordFrequencies(Descriptions(fetchProblems(rows)), f.limit, order)

\* lines 222-261 on the fetched problems: the pairs of the first ten
pairsAlone(problems) ==
  debugPairs(problems, IF Len(problems) < 10 THEN Len(problems) ELSE 10, 1, 2)
\* GetRankingDebugInfo run alone on the rows
DebugAlone(f, rows, svc) ==
  IF Len(fetchProblems(rows)) = 0
  THEN f.result = [Stats |-> ZeroClusterStats, SimilarityPairs |-> <<>>]
  ELSE \E problems \in {fetchProblems(rows)} :
       \E formed \in {clusterWith(problems, svc.threshold, someFitOrder(problems))} :
         /\ \E termsOrder \in fitOrders(problems) :
              f.result.Stats = clusterStats(formed, svc.threshold, termsOrder).stats
         /\ f.result.SimilarityPairs = pairsAlone(formed.problems)

\* the result of a finished request is one its handler returns when run alone
AsAlone(f, rows, svc) ==
  (f.pc = "done" /\ f.err = "nil") =>
    CASE f.kind = "rank" -> RankAlone(f, rows, svc)
      [] f.kind = "wordcloud" -> WordCloudAlone(f, rows)
      [] f.kind = "debug" -> DebugAlone(f, rows, svc)

\* a step changes the locals of one request at most, and neither the Service nor the table
IsolatedStep ==
  /\ service' = service
  /\ db' = db
  /\ \A r \in ReqIds : \A q \in ReqIds :
       (r # q /\ req'[r] # req[r]) => req'[q] = req[q]

\* C7: concurrent requests on the same Service do not interfere: no step of one
\* request writes the Service, the table or the locals of another request, and under
\* every interleaving the result of each request is one it returns when run alone
C7_NoInterference ==
  /\ [][IsolatedStep]_vars
  /\ [][\A r \in ReqIds : (req[r].pc # "done" /\ req'[r].pc = "done")
                            => AsAlone(req'[r], db, service)]_vars

\* two ranking requests in flight on a table of two clusters, one building its list
\* while the other is still scoring on a later day
C7_Witness ==
  /\ req["r1"].pc = "output" /\ req["r1"].i >= 1
  /\ req["r2"].pc = "score" /\ req["r2"].i >= 1 /\ req["r2"].n >= 2
  /\ req["r2"].clocks # SubSeq(req["r1"].clocks, 1, Len(req["r2"].clocks))

(***************************************************************************)
(* Direct calls of the similarity signals, the keyword functions, the      *)
(* recency score and the clustering, scoring and sorting of a corpus       *)
(***************************************************************************)
txtControl == <<"NUL", "ZWSP">>
txtTabs == <<"\t", "\n", " ">>
txtStopWords == <<"Y","a","n","g"," ","d","a","n"," ","k","a","c","a",","," ",
                  "(","y","a","n","g",")"," ","d","a","n">>
txtAccent == <<"é","a"," ","o","k">>
txtCatLemLas == <<"c","a","t"," ","l","e","m"," ","l","a","s"," ","l","a","s">>
txtCatOli == <<"c","a","t"," ","o","l","i">>
\* the corpus of three undated reports
txtPecahSaatPacking == <<"k","a","c","a"," ","p","e","c","a","h"," ","s","a","a","t"," ",
                         "p","a","c","k","i","n","g">>
txtRetakWaktuPacking == <<"k","a","c","a"," ","r","e","t","a","k"," ","w","a","k","t","u"," ",
                          "p","a","c","k","i","n","g">>
txtWarnaCatBerbeda == <<"w","a","r","n","a"," ","c","a","t"," ","b","e","r","b","e","d","a">>

\* texts handed to the functions of trigram.go: empty, blank, control runes only,
\* shorter than a trigram, stop words with punctuation, a two-rune word of three bytes
UnitTexts ==
  {txtEmpty, txtBlank, txtControl, txtTabs, txtAb, txtKacaPecah, txtKacaRetak,
   txtKacaPecahLoud, txtStopWords, txtAccent}

\* documents of the corpora the TF-IDF model is fitted on
UnitDocs == {txtAb, txtCatLemLas, txtCatOli}
\* a corpus of undated problems: item k has id k
UndatedCorpus(texts) == [k \in 1..Len(texts) |-> NewProblemData(k, texts[k], NilTime, "")]
UnitCorpora ==
  UNION {{UndatedCorpus(texts) : texts \in [1..n -> UnitDocs]} : n \in 1..MaxCorpus}
ExampleCorpus == UndatedCorpus(<<txtPecahSaatPacking, txtRetakWaktuPacking, txtWarnaCatBerbeda>>)

\* texts of the corpora the word cloud is counted on
CloudTexts == {txtEmpty, txtKacaPecah, txtKacaRetak, txtStopWords}
CloudCorpora == UNION {[1..n -> CloudTexts] : n \in 0..MaxCorpus}

\* descriptions of the members of the clusters a key phrase is made for: empty, blank,
\* listed words, and a word of five runes and six bytes next to a short unlisted word
txtResinLem == <<"r","é","s","i","n"," ","l","e","m">>
txtLem == <<"l","e","m">>
\* the largest cluster a key phrase is made for
MaxPhraseMembers == 2
PhraseTexts == {txtEmpty, txtBlank, txtKacaPecah, txtKacaRetak, txtResinLem, txtLem}
PhraseClusters ==
  UNION {{NewCluster(UndatedCorpus(texts)) : texts \in [1..n -> PhraseTexts]} :
           n \in 0..MaxPhraseMembers}
\* the maxWords arguments: the service passes 4 (service.go line 160)
PhraseLimits == {0, 1, 2, 4}

UnitCalls ==
  {NewCall("trigrams", [text |-> t]) : t \in UnitTexts}
  \cup {NewCall("keywords", [text |-> t]) : t \in UnitTexts}
  \cup {NewCall("similarity", [s1 |-> a, s2 |-> b]) : a \in UnitTexts, b \in UnitTexts}
  \cup {NewCall("lcs", [s1 |-> a, s2 |-> b]) : a \in UnitTexts, b \in UnitTexts}
  \cup UNION {{NewCall("signals", [problems |-> c, i |-> pair[1], j |-> pair[2]]) :
                 pair \in {x \in (1..Len(c)) \X (1..Len(c)) : x[1] <= x[2]}} :
                c \in UnitCorpora}
  \cup {NewCall("wordfreq", [texts |-> c, limit |-> n]) : c \in CloudCorpora, n \in 0..MaxLimit}
  \cup {NewCall("recency", [cluster |-> c, now |-> d]) : c \in DatedClusters, d \in Nows}
  \cup {NewCall("rank", [problems |-> c]) : c \in UnitCorpora \cup {<<>>, ExampleCorpus}}
  \cup {NewCall("fit", [documents |-> Descriptions(c)]) :
          c \in UnitCorpora \cup {<<>>, ExampleCorpus}}
  \cup {NewCall("keyphrase", [cluster |-> c, maxWords |-> n]) :
          c \in PhraseClusters, n \in PhraseLimits}

InitUnit ==
  /\ service = NewService
  /\ db = <<>>
  /\ clock = 0
  /\ req = [r \in ReqIds |-> IdleRequest]
  /\ call \in UnitCalls

\* GenerateTrigrams(arg.text)
UnitTrigrams ==
  /\ call.pc = "call" /\ call.fn = "trigrams"
  /\ call' = [call EXCEPT !.pc = "done", !.ret = GenerateTrigrams(call.arg.text)]
  /\ UNCHANGED <<service, db, clock, req>>

\* ExtractKeywords(arg.text)
UnitKeywords ==
  /\ call.pc = "call" /\ call.fn = "keywords"
  /\ call' = [call EXCEPT !.pc = "done", !.ret = ExtractKeywords(call.arg.text)]
  /\ UNCHANGED <<service, db, clock, req>>

\* CalculateSimilarity on the trigram sets of the two texts, called both ways round
UnitSimilarity ==
  /\ call.pc = "call" /\ call.fn = "similarity"
  /\ \E a \in {GenerateTrigrams(call.arg.s1)} : \E b \in {GenerateTrigrams(call.arg.s2)} :
       call' = [call EXCEPT !.pc = "done",
                  !.ret = [a |-> a, b |-> b,
                           ab |-> CalculateSimilarity(a, b),
                           ba |-> CalculateSimilarity(b, a),
                           aa |-> CalculateSimilarity(a, a)]]
  /\ UNCHANGED <<service, db, clock, req>>

\* LongestCommonSubstring and CalculateLCSSimilarity on the two texts, both ways round
UnitLCS ==
  /\ call.pc = "call" /\ call.fn = "lcs"
  /\ call' = [call EXCEPT !.pc = "done",
                !.ret = [lcs |-> LongestCommonSubstring(call.arg.s1, call.arg.s2),
                         ab |-> CalculateLCSSimilarity(call.arg.s1, call.arg.s2),
                         ba |-> CalculateLCSSimilarity(call.arg.s2, call.arg.s1)]]
  /\ UNCHANGED <<service, db, clock, req>>

\* the three signals and the three hybrid scores of the items i and j of a corpus,
\* each computed both ways round, on the model and the caches the clusterer builds
\* (cluster file lines 71-92)
signalsOf(semSim, problems, i, j) ==
  [p |-> problems[i], q |-> problems[j],
   trigram |-> <<CalculateSimilarity(TrigramsOf(problems[i]), TrigramsOf(problems[j])),
                 CalculateSimilarity(TrigramsOf(problems[j]), TrigramsOf(problems[i]))>>,
   lcs |-> <<CalculateLCSSimilarity(problems[i].DeskripsiMasalah, problems[j].DeskripsiMasalah),
             CalculateLCSSimilarity(problems[j].DeskripsiMasalah, problems[i].DeskripsiMasalah)>>,
   tfidf |-> <<CosineSimilarity(problems[i].TFIDFVector, problems[j].TFIDFVector),
               CosineSimilarity(problems[j].TFIDFVector, problems[i].TFIDFVector)>>,
   cluster |-> <<CalculateFromVectors(semSim,
                   problems[i].DeskripsiMasalah, problems[j].DeskripsiMasalah,
                   TrigramsOf(problems[i]), TrigramsOf(problems[j]),
                   problems[i].TFIDFVector, problems[j].TFIDFVector),
                 CalculateFromVectors(semSim,
                   problems[j].DeskripsiMasalah, problems[i].DeskripsiMasalah,
                   TrigramsOf(problems[j]), TrigramsOf(problems[i]),
                   problems[j].TFIDFVector, problems[i].TFIDFVector)>>,
   centroid |-> <<centroidSimilarity(problems[i], problems[j]),
                  centroidSimilarity(problems[j], problems[i])>>,
   debug |-> <<DebugPair(problems, i, j).CombinedSim, DebugPair(problems, j, i).CombinedSim>>]

UnitSignals ==
  /\ call.pc = "call" /\ call.fn = "signals"
  /\ \E fitOrder \in MapOrders(FitWords(Descriptions(call.arg.problems))) :
     \E semSim \in {NewSemanticSimilarity(Descriptions(call.arg.problems), fitOrder)} :
     \E problems \in {Precompute(call.arg.problems, semSim)} :
       call' = [call EXCEPT !.pc = "done",
                  !.ret = signalsOf(semSim, problems, call.arg.i, call.arg.j)]
  /\ UNCHANGED <<service, db, clock, req>>

\* CountWordFrequencies(arg.texts, arg.limit)
UnitWordFreq ==
  /\ call.pc = "call" /\ call.fn = "wordfreq"
  /\ \E order \in MapOrders(FrequentWords(call.arg.texts)) :
       call' = [call EXCEPT !.pc = "done",
                  !.ret = CountWordFrequencies(call.arg.texts, call.arg.limit, order)]
  /\ UNCHANGED <<service, db, clock, req>>

\* calculateRecencyScore(&arg.cluster, DefaultRPNConfig().RecencyDays) on the day arg.now
UnitRecency ==
  /\ call.pc = "call" /\ call.fn = "recency"
  /\ call' = [call EXCEPT !.pc = "done",
                !.ret = calculateRecencyScore(call.arg.cluster, DefaultRPNConfig.RecencyDays,
                                              call.arg.now)]
  /\ UNCHANGED <<service, db, clock, req>>

\* lines 141-150 of GetTopProblemsWithStats on the corpus arg.problems: the clusters as the
\* clusterer returns them, and as they are after centroid selection, after scoring and
\* after the sort
\* line 150: the sort of the scored clusters
rankedScored(clusters, selected, scored) ==
  [clusters |-> clusters, selected |-> selected, scored |-> scored,
   sorted |-> SortClustersByRPN(scored)]
\* line 146: CalculateRPN on every cluster SelectCentroid has left
rankedSelected(clusters, selected, config, now) ==
  rankedScored(clusters, selected,
               [k \in 1..Len(selected) |-> CalculateRPN(selected[k], config, now)])
\* line 145: SelectCentroid on every cluster
rankedOf(clusters, config, now) ==
  rankedSelected(clusters, [k \in 1..Len(clusters) |-> SelectCentroid(clusters[k])],
                 config, now)
UnitRank ==
  /\ call.pc = "call" /\ call.fn = "rank"
  /\ \E fitOrder \in MapOrders(FitWords(Descriptions(call.arg.problems))) :
     \E out \in {ClusterDescriptionsSemanticWithStats(call.arg.problems, service.threshold,
                                                       fitOrder, fitOrder)} :
       call' = [call EXCEPT !.pc = "done",
                  !.ret = rankedOf(out.clusters, service.rpnConfig, clock)]
  /\ UNCHANGED <<service, db, clock, req>>

\* NewSemanticSimilarity(arg.documents) twice: each builds a fresh vectorizer, fits it
\* on the documents and transforms them; the two ranges over docFreq are independent
UnitFit ==
  /\ call.pc = "call" /\ call.fn = "fit"
  /\ LET fits == {NewSemanticSimilarity(call.arg.documents, order) :
                    order \in MapOrders(FitWords(call.arg.documents))}
     IN \E first \in fits : \E second \in fits :
          call' = [call EXCEPT !.pc = "done",
                     !.ret = [first |-> first, second |-> second,
                              size |-> GetVocabularySize(first)]]
  /\ UNCHANGED <<service, db, clock, req>>

\* arg.cluster.GetClusterKeyPhrase(arg.maxWords)
UnitKeyPhrase ==
  /\ call.pc = "call" /\ call.fn = "keyphrase"
  /\ \E order \in MapOrders(KeyPhraseWords(call.arg.cluster)) :
       call' = [call EXCEPT !.pc = "done",
                  !.ret = GetClusterKeyPhrase(call.arg.cluster, call.arg.maxWords, order)]
  /\ UNCHANGED <<service, db, clock, req>>

NextUnit ==
  \/ UnitTrigrams
  \/ UnitKeywords
  \/ UnitSimilarity
  \/ UnitLCS
  \/ UnitSignals
  \/ UnitWordFreq
  \/ UnitRecency
  \/ UnitRank
  \/ UnitFit
  \/ UnitKeyPhrase

SpecUnit == InitUnit /\ [][NextUnit]_vars

(***************************************************************************)
(* Properties of the direct calls                                          *)
(***************************************************************************)
UnitDone(fn) == call.fn = fn /\ call.pc = "done"
\* nothing of the text survives normalizeWhitespace: every rune is a space or is not printable
NormalizesToEmpty(text) == \A k \in 1..Len(text) : IsSpace(text[k]) \/ ~IsPrint(text[k])

\* C11 as stated: GenerateTrigrams returns a non-empty set for every non-empty text,
\* texts made only of whitespace or of non-printable runes included
C11_NonEmptyTrigrams ==
  (UnitDone("trigrams") /\ call.arg.text # <<>>) => call.ret # {}
\* C11: GenerateTrigrams returns the empty set exactly for the texts of which nothing is left
\* once whitespace is collapsed and trimmed and non-printable runes are dropped; every
\* other text has a non-empty trigram set
C11_NonEmptyAfterNormalize ==
  UnitDone("trigrams") => (call.ret = {} <=> NormalizesToEmpty(call.arg.text))
C11_Witness ==
  /\ UnitDone("trigrams")
  /\ call.arg.text = txtAb
  /\ call.ret = {txtAb}

\* C12: CalculateSimilarity is the Jaccard index |a ∩ b| / |a ∪ b| (here rounded down to
\* 1/SCALE), lies in [0,1], is 1.0 for two empty sets and 0.0 when exactly one set is
\* empty, and is 1.0 for the trigram set of any text against itself
C12_Jaccard ==
  UnitDone("similarity") =>
    LET a == call.ret.a
        b == call.ret.b
        inter == Cardinality(a \cap b)
        union == Cardinality(a \cup b)
    IN /\ 0 <= call.ret.ab /\ call.ret.ab <= SCALE
       /\ (a = {} /\ b = {}) => call.ret.ab = SCALE
       /\ ((a = {}) # (b = {})) => call.ret.ab = 0
       /\ union > 0 => /\ call.ret.ab * union <= inter * SCALE
                       /\ inter * SCALE < (call.ret.ab + 1) * union
       /\ call.ret.aa = SCALE
C12_Witness ==
  /\ UnitDone("similarity")
  /\ call.arg = [s1 |-> txtKacaPecah, s2 |-> txtKacaRetak]
  /\ call.ret.ab > 0 /\ call.ret.ab < SCALE
  /\ call.ret.aa = SCALE

HasCommonRun(r1, r2, len) ==
  \E i \in 1..(Len(r1) - len + 1) : \E j \in 1..(Len(r2) - len + 1) :
    SubSeq(r1, i, i + len - 1) = SubSeq(r2, j, j + len - 1)
\* the length of the longest contiguous run of runes that occurs in both sequences
LongestCommonRun(r1, r2) ==
  SetMax({len \in 0..Min2(Len(r1), Len(r2)) : len = 0 \/ HasCommonRun(r1, r2, len)})

\* C14: CalculateLCSSimilarity is the length of the longest common contiguous substring
\* of the two lowercased rune sequences divided by the larger of the two rune counts
\* (here rounded down to 1/SCALE), lies in [0,1], is 1.0 for two empty strings and 0.0
\* when exactly one string is empty
C14_LCSRatio ==
  UnitDone("lcs") =>
    LET s1 == call.arg.s1
        s2 == call.arg.s2
        lcsLen == LongestCommonRun(ToLower(s1), ToLower(s2))
        maxLen == Max2(Len(s1), Len(s2))
    IN /\ 0 <= call.ret.ab /\ call.ret.ab <= SCALE
       /\ (s1 = <<>> /\ s2 = <<>>) => call.ret.ab = SCALE
       /\ ((s1 = <<>>) # (s2 = <<>>)) => call.ret.ab = 0
       /\ call.ret.lcs[2] = lcsLen
       /\ maxLen > 0 => /\ call.ret.ab * maxLen <= lcsLen * SCALE
                        /\ lcsLen * SCALE < (call.ret.ab + 1) * maxLen
\* a text with upper-case runes (12 runes) against a lower-case one: "kaca " is the
\* longest common run
C14_Witness ==
  /\ UnitDone("lcs")
  /\ call.arg = [s1 |-> txtKacaPecahLoud, s2 |-> txtKacaRetak]
  /\ call.ret.lcs[2] = 5
  /\ call.ret.ab = 4166

\* C15: the cosine similarity of two vectors of one fitted model lies in [0,1], and is
\* exactly 0 when either vector has norm 0
C15_CosineInRange ==
  UnitDone("signals") =>
    \A k \in 1..2 :
      /\ 0 <= call.ret.tfidf[k] /\ call.ret.tfidf[k] <= SCALE
      /\ (call.ret.p.TFIDFVector.norm = 0 \/ call.ret.q.TFIDFVector.norm = 0)
           => call.ret.tfidf[k] = 0

\* the three signals of the pair, taken in the argument order k
Signals(k) == <<call.ret.trigram[k], call.ret.lcs[k], call.ret.tfidf[k]>>
WeightedSum(signals, trigramWeight, lcsWeight, tfidfWeight) ==
  (signals[1] * trigramWeight) + (signals[2] * lcsWeight) + (signals[3] * tfidfWeight)
\* a hybrid score of signals within [0,1] is within [0,1], and is 1 only if all three are 1
ScoreInRange(score, signals) ==
  (\A s \in 1..3 : 0 <= signals[s] /\ signals[s] <= SCALE) =>
    /\ 0 <= score /\ score <= SCALE * SCALE
    /\ score = SCALE * SCALE => \A s \in 1..3 : signals[s] = SCALE

\* C16: the hybrid score is the weighted sum of the three signals with the weights
\* 0.25 / 0.15 / 0.60 in the clusterer and in the debug breakdown and 0.30 / 0.20 / 0.50
\* in centroid selection; each profile sums to 1.0, so signals within [0,1] give a score
\* within [0,1] that is 1 only if all three signals are 1
C16_WeightedSum ==
  /\ <<ClusterTrigramWeight, ClusterLCSWeight, ClusterTFIDFWeight>> = <<2500, 1500, 6000>>
  /\ <<DebugTrigramWeight, DebugLCSWeight, DebugTFIDFWeight>> = <<2500, 1500, 6000>>
  /\ <<CentroidTrigramWeight, CentroidLCSWeight, CentroidTFIDFWeight>> = <<3000, 2000, 5000>>
  /\ ClusterTrigramWeight + ClusterLCSWeight + ClusterTFIDFWeight = SCALE
  /\ DebugTrigramWeight + DebugLCSWeight + DebugTFIDFWeight = SCALE
  /\ CentroidTrigramWeight + CentroidLCSWeight + CentroidTFIDFWeight = SCALE
  /\ UnitDone("signals") =>
       \A k \in 1..2 :
         /\ call.ret.cluster[k] = WeightedSum(Signals(k), 2500, 1500, 6000)
         /\ call.ret.debug[k] = WeightedSum(Signals(k), 2500, 1500, 6000)
         /\ call.ret.centroid[k] = WeightedSum(Signals(k), 3000, 2000, 5000)
         /\ ScoreInRange(call.ret.cluster[k], Signals(k))
         /\ ScoreInRange(call.ret.debug[k], Signals(k))
         /\ ScoreInRange(call.ret.centroid[k], Signals(k))
\* two items with the same text: all three signals and all three scores are 1
C16_Witness ==
  /\ UnitDone("signals")
  /\ call.ret.p.ID # call.ret.q.ID
  /\ call.ret.p.DeskripsiMasalah = txtCatOli
  /\ Signals(1) = <<SCALE, SCALE, SCALE>>
  /\ call.ret.cluster[1] = SCALE * SCALE
  /\ call.ret.debug[1] = SCALE * SCALE
  /\ call.ret.centroid[1] = SCALE * SCALE

\* the members of a cluster that have a date
DatedMembers(cluster) == {k \in 1..Len(cluster.Problems) : cluster.Problems[k].Tanggal # NilTime}
\* 10 * exp(-daysSince / window) of a dated member, days before now counted from 0
RecencyOf(p, window, now) == 10 * ExpNeg(Max2(now - p.Tanggal[1], 0), window)
\* the place of a scored cluster in the sequence the clusterer returned
FoundingPlace(cluster) ==
  CHOOSE k \in 1..Len(call.ret.clusters) : call.ret.clusters[k].Problems = cluster.Problems

\* C17: the recency score of a cluster is the mean of 10*exp(-daysSince/window) over the
\* members that have a date (here rounded down to 1/SCALE) and 5.0 when none has one;
\* clusters of equal size without dated members get the same RPN and stay in their
\* founding order in the sorted output
C17_Recency ==
  /\ (UnitDone("recency") /\ Len(call.arg.cluster.Problems) >= 1) =>
       LET cluster == call.arg.cluster
           dated == DatedMembers(cluster)
           total == SumOver([k \in dated |->
                               RecencyOf(cluster.Problems[k], DefaultRPNConfig.RecencyDays,
                                         call.arg.now)], dated)
       IN IF dated = {} THEN call.ret = 5 * SCALE
          ELSE /\ call.ret * Cardinality(dated) <= total
               /\ total < (call.ret + 1) * Cardinality(dated)
  /\ UnitDone("rank") =>
       \A a \in 1..Len(call.ret.sorted) : \A b \in 1..Len(call.ret.sorted) :
         (/\ a < b
          /\ Len(call.ret.sorted[a].Problems) = Len(call.ret.sorted[b].Problems)
          /\ DatedMembers(call.ret.sorted[a]) = {}
          /\ DatedMembers(call.ret.sorted[b]) = {})
           => /\ call.ret.sorted[a].RPNScore = call.ret.sorted[b].RPNScore
              /\ FoundingPlace(call.ret.sorted[a]) < FoundingPlace(call.ret.sorted[b])
\* a cluster of an undated member and one dated a year back, scored on day 200: the
\* mean is taken over the one dated member
C17_Witness ==
  /\ UnitDone("recency")
  /\ Len(call.arg.cluster.Problems) = 2
  /\ Cardinality(DatedMembers(call.arg.cluster)) = 1
  /\ call.arg.now = 200
  /\ call.ret > 0 /\ call.ret < 5 * SCALE
  /\ \E k \in DatedMembers(call.arg.cluster) :
       call.ret = RecencyOf(call.arg.cluster.Problems[k], 90, 200)

\* C18: ExtractKeywords returns no token of two characters or fewer and no stop word,
\* and nothing for the empty text; the word cloud holds no stop word
C18_Keywords ==
  /\ UnitDone("keywords") =>
       /\ \A k \in 1..Len(call.ret) : Len(call.ret[k]) > 2 /\ call.ret[k] \notin stopWords
       /\ call.arg.text = <<>> => call.ret = <<>>
  /\ UnitDone("wordfreq") =>
       \A k \in 1..Len(call.ret) : call.ret[k].Word \notin stopWords

\* the number of times the keyword w occurs in the texts
Occurrences(texts, w) ==
  SumOver([t \in 1..Len(texts) |-> CountIn(ExtractKeywords(texts[t]), w)], 1..Len(texts))
\* the keywords of the texts
KeywordsOf(texts) == UNION {Range(ExtractKeywords(texts[t])) : t \in 1..Len(texts)}
\* the words of a word cloud
WordsOf(freqs) == {freqs[k].Word : k \in 1..Len(freqs)}

\* C19: CountWordFrequencies returns at most limit entries, each with the number of
\* occurrences of its keyword over all texts, which is at least 2, in non-increasing
\* order of count, and no keyword left out occurs more often than one returned
C19_WordCloud ==
  UnitDone("wordfreq") =>
    LET texts == call.arg.texts
        freqs == call.ret
    IN /\ Len(freqs) <= call.arg.limit
       /\ \A k \in 1..Len(freqs) :
            /\ freqs[k].Word \in KeywordsOf(texts)
            /\ freqs[k].Count = Occurrences(texts, freqs[k].Word)
            /\ freqs[k].Count >= 2
       /\ \A k \in 1..Len(freqs) : \A l \in 1..Len(freqs) :
            k < l => freqs[k].Count >= freqs[l].Count /\ freqs[k].Word # freqs[l].Word
       /\ \A w \in KeywordsOf(texts) \ WordsOf(freqs) : \A k \in 1..Len(freqs) :
            Occurrences(texts, w) <= freqs[k].Count
\* three texts with kaca three times, pecah and retak less often, cut to one entry
C19_Witness ==
  /\ UnitDone("wordfreq")
  /\ call.arg.limit = 1
  /\ Cardinality(FrequentWords(call.arg.texts)) >= 2
  /\ Len(call.ret) = 1
  /\ call.ret[1].Count = 3
  /\ \E w \in KeywordsOf(call.arg.texts) \ WordsOf(call.ret) : Occurrences(call.arg.texts, w) = 2

\* C20: the corpus "kaca pecah saat packing", "kaca retak waktu packing", "warna cat
\* berbeda" without dates, clustered at threshold 0.15, gives exactly two clusters, the
\* first two items together and the third alone, and after scoring and sorting the
\* cluster ranked first has two members
C20_Example ==
  (UnitDone("rank") /\ call.arg.problems = ExampleCorpus) =>
    /\ service.threshold = 1500
    /\ Len(call.ret.clusters) = 2
    /\ MemberIDs(call.ret.clusters[1]) = <<1, 2>>
    /\ MemberIDs(call.ret.clusters[2]) = <<3>>
    /\ Len(call.ret.sorted) = 2
    /\ Len(call.ret.sorted[1].Problems) = 2
C20_Witness ==
  /\ UnitDone("rank")
  /\ call.arg.problems = ExampleCorpus
  /\ Len(call.ret.sorted) = 2
  /\ Len(call.ret.sorted[1].Problems) = 2
  /\ Len(call.ret.sorted[2].Problems) = 1
  /\ call.ret.sorted[1].RPNScore > call.ret.sorted[2].RPNScore

(***************************************************************************)
(* Properties of the clusters the clusterer forms                          *)
(***************************************************************************)
\* the clustering-profile score of the items i and j of the cached corpus, in
\* SCALE*SCALE units
ClusterScore(problems, i, j) ==
  (TrigramSimOf(problems, i, j) * ClusterTrigramWeight)
    + (CalculateLCSSimilarity(problems[i].DeskripsiMasalah, problems[j].DeskripsiMasalah)
         * ClusterLCSWeight)
    + (TFIDFSimOf(problems, i, j) * ClusterTFIDFWeight)
\* item i reaches the threshold of the call against item j
Similar(i, j) == ClusterScore(call.ret.problems, i, j) >= call.arg.threshold * SCALE
\* the corpus index of the first member of every returned cluster (item k has id k)
Founders == {MemberIDs(call.ret.clusters[c])[1] : c \in 1..Len(call.ret.clusters)}
\* the members of the cluster whose first member is item i
MembersOf(i) ==
  UNION {Range(MemberIDs(call.ret.clusters[c])) :
           c \in {d \in 1..Len(call.ret.clusters) : MemberIDs(call.ret.clusters[d])[1] = i}}

\* C21: item j is in the cluster founded by an earlier item i exactly when it reaches
\* the threshold against i and stays below it against every founder before i; an item
\* founds a cluster exactly when it stays below the threshold against every earlier
\* founder; nothing is required between two members that are not founders
C21_FounderOnly ==
  ClusterDone =>
    /\ \A i \in Founders : \A j \in (i + 1)..Len(call.arg.problems) :
         j \in MembersOf(i) <=>
           (Similar(i, j) /\ \A f \in Founders : f < i => ~Similar(f, j))
    /\ \A j \in 1..Len(call.arg.problems) :
         j \in Founders <=> \A f \in Founders : f < j => ~Similar(f, j)
\* one cluster of three at the service's threshold whose second and third member are
\* below the threshold against each other
C21_Witness ==
  /\ ClusterDone
  /\ call.arg.problems = ChainCorpus
  /\ call.arg.threshold = 1500
  /\ Len(call.ret.clusters) = 1
  /\ MemberIDs(call.ret.clusters[1]) = <<1, 2, 3>>
  /\ ~Similar(2, 3) /\ ~Similar(3, 2)

\* C22: the clusters are returned in strictly increasing order of the corpus index of
\* their first member, and the first member of a cluster is its member of smallest
\* corpus index
C22_FounderOrder ==
  ClusterDone =>
    /\ \A c \in 1..Len(call.ret.clusters) : \A d \in 1..Len(call.ret.clusters) :
         c < d => MemberIDs(call.ret.clusters[c])[1] < MemberIDs(call.ret.clusters[d])[1]
    /\ \A c \in 1..Len(call.ret.clusters) :
         \A k \in 1..Len(call.ret.clusters[c].Problems) :
           MemberIDs(call.ret.clusters[c])[1] <= MemberIDs(call.ret.clusters[c])[k]
\* the first cluster holds the items 1 and 3, the second is founded by item 2
C22_Witness ==
  /\ ClusterDone
  /\ Len(call.ret.clusters) = 2
  /\ MemberIDs(call.ret.clusters[1]) = <<1, 3>>
  /\ MemberIDs(call.ret.clusters[2]) = <<2>>

\* every pair of items of the corpus scores below the threshold of the call
AllBelow ==
  \A i \in 1..Len(call.arg.problems) : \A j \in 1..Len(call.arg.problems) :
    i < j => ~Similar(i, j)

\* C29: with a threshold of 0 or less a non-empty corpus gives one cluster holding all
\* items in corpus order; with a threshold above every pairwise clustering score every
\* item is a cluster of its own and the cluster count is the corpus size
C29_ThresholdBounds ==
  (ClusterDone /\ Len(call.arg.problems) >= 1) =>
    /\ call.arg.threshold <= 0 =>
         /\ Len(call.ret.clusters) = 1
         /\ MemberIDs(call.ret.clusters[1]) = [k \in 1..Len(call.arg.problems) |-> k]
         /\ call.ret.stats.ClusterCount = 1
    /\ AllBelow =>
         /\ Len(call.ret.clusters) = Len(call.arg.problems)
         /\ \A c \in 1..Len(call.ret.clusters) : MemberIDs(call.ret.clusters[c]) = <<c>>
         /\ call.ret.stats.ClusterCount = Len(call.arg.problems)
\* three items at threshold 0, two of which score exactly 0 against each other
C29_Witness ==
  /\ ClusterDone
  /\ call.arg.threshold = 0
  /\ Len(call.arg.problems) = 3
  /\ \E i \in 1..3 : \E j \in 1..3 : i < j /\ ClusterScore(call.ret.problems, i, j) = 0
  /\ MemberIDs(call.ret.clusters[1]) = <<1, 2, 3>>
SamplesDone == call.fn = "samples" /\ call.pc = "done"
\* the first min(5, size) member ids of a cluster, in order
FirstFive(c) == SubSeq(MemberIDs(c), 1, Min2(5, Len(c.Problems)))

\* C30: the members of every cluster the clusterer returns are in increasing corpus
\* order, the founder first; GetSampleIDs returns the ids of the first min(5, size)
\* members in that order, so the founder's id comes first and no id is repeated
C30_SampleIDs ==
  /\ ClusterDone =>
       \A c \in 1..Len(call.ret.clusters) :
         /\ \A k \in 1..Len(call.ret.clusters[c].Problems) :
              \A l \in 1..Len(call.ret.clusters[c].Problems) :
                k < l => MemberIDs(call.ret.clusters[c])[k] < MemberIDs(call.ret.clusters[c])[l]
         /\ GetSampleIDs(call.ret.clusters[c]) = FirstFive(call.ret.clusters[c])
         /\ GetSampleIDs(call.ret.clusters[c])[1] \in Founders
  /\ SamplesDone =>
       /\ call.ret = FirstFive(call.arg.cluster)
       /\ Len(call.ret) = Min2(5, Len(call.arg.cluster.Problems))
       /\ \A k \in 1..Len(call.ret) : \A l \in 1..Len(call.ret) :
            k # l => call.ret[k] # call.ret[l]
       /\ Len(call.arg.cluster.Problems) >= 1 => call.ret[1] = call.arg.cluster.Problems[1].ID
\* a cluster of more than five members: five sample ids
C30_Witness ==
  /\ SamplesDone
  /\ Len(call.arg.cluster.Problems) > 5
  /\ call.ret = <<1, 2, 3, 4, 5>>

(***************************************************************************)
(* Properties of the steps after clustering                                *)
(***************************************************************************)
\* the summed centroid-profile distance of member i (counted from one) to the others
TotalDistance(ps, i) ==
  SumOver([j \in (1..Len(ps)) \ {i} |-> SCALE * SCALE - centroidSimilarity(ps[i], ps[j])],
          (1..Len(ps)) \ {i})
\* the members whose average distance to the others is minimal
Central(ps) == {i \in 1..Len(ps) : \A j \in 1..Len(ps) : TotalDistance(ps, i) <= TotalDistance(ps, j)}

\* C23: for a cluster of two or more members SelectCentroid sets CentroidIdx to the
\* smallest index among the members of minimal average centroid-profile distance to
\* the other members; for a cluster of one member it sets it to 0
C23_Centroid ==
  UnitDone("rank") =>
    \A c \in 1..Len(call.ret.sorted) :
      IF Len(call.ret.sorted[c].Problems) = 1
      THEN call.ret.sorted[c].CentroidIdx = 0
      ELSE call.ret.sorted[c].CentroidIdx + 1 = SetMin(Central(call.ret.sorted[c].Problems))
\* a cluster of three whose second and third member tie for the minimum: the second
\* becomes the centroid
C23_Witness ==
  /\ UnitDone("rank")
  /\ Len(call.ret.sorted) = 1
  /\ Len(call.ret.sorted[1].Problems) = 3
  /\ Central(call.ret.sorted[1].Problems) = {2, 3}
  /\ call.ret.sorted[1].CentroidIdx = 1

\* the number of places of the sequence s that hold x
CountOf(s, x) == Cardinality({k \in 1..Len(s) : s[k] = x})

\* C28: SelectCentroid changes only CentroidIdx and CalculateRPN only RPNScore of the
\* cluster it is given, the members and their order stay as they are, and
\* SortClustersByRPN returns the same clusters, each as often as before, in some order
C28_Frame ==
  UnitDone("rank") =>
    /\ Len(call.ret.selected) = Len(call.ret.clusters)
    /\ \A k \in 1..Len(call.ret.clusters) :
         call.ret.selected[k]
           = [call.ret.clusters[k] EXCEPT !.CentroidIdx = call.ret.selected[k].CentroidIdx]
    /\ Len(call.ret.scored) = Len(call.ret.selected)
    /\ \A k \in 1..Len(call.ret.selected) :
         call.ret.scored[k]
           = [call.ret.selected[k] EXCEPT !.RPNScore = call.ret.scored[k].RPNScore]
    /\ Len(call.ret.sorted) = Len(call.ret.scored)
    /\ \A k \in 1..Len(call.ret.scored) :
         /\ CountOf(call.ret.sorted, call.ret.scored[k]) = CountOf(call.ret.scored, call.ret.scored[k])
         /\ CountOf(call.ret.scored, call.ret.sorted[k]) = CountOf(call.ret.sorted, call.ret.sorted[k])
\* a cluster of one member founded before a cluster of two: both are scored and the
\* sort exchanges them
C28_Witness ==
  /\ UnitDone("rank")
  /\ Len(call.ret.clusters) = 2
  /\ MemberIDs(call.ret.clusters[1]) = <<1>>
  /\ \A k \in 1..2 : call.ret.scored[k].RPNScore > 0
  /\ call.ret.sorted = <<call.ret.scored[2], call.ret.scored[1]>>

\* the documents among docs in which the keyword w occurs
DocsWith(docs, w) == {d \in 1..Len(docs) : \E k \in 1..Len(ExtractKeywords(docs[d])) :
                                              ExtractKeywords(docs[d])[k] = w}
\* the keywords that occur in at least two of the documents
InTwoDocs(docs) == {w \in KeywordsOf(docs) : Cardinality(DocsWith(docs, w)) >= 2}

\* C24: after Fit on a fresh vectorizer the vocabulary is the set of keywords that occur
\* in at least two documents, however often they occur in one; the indices are
\* 0..size-1, one per word, and the reported size is the number of these keywords
C24_Vocabulary ==
  UnitDone("fit") =>
    /\ DOMAIN call.ret.first.vectorizer.vocabulary = InTwoDocs(call.arg.documents)
    /\ call.ret.size = Cardinality(InTwoDocs(call.arg.documents))
    /\ {call.ret.first.vectorizer.vocabulary[w] : w \in InTwoDocs(call.arg.documents)}
         = 0..(call.ret.size - 1)
\* 'las' occurs twice in the first document and in no other: it is left out, 'cat' is in
C24_Witness ==
  /\ UnitDone("fit")
  /\ call.arg.documents = <<txtCatLemLas, txtCatOli>>
  /\ CountIn(ExtractKeywords(txtCatLemLas), <<"l","a","s">>) = 2
  /\ DOMAIN call.ret.first.vectorizer.vocabulary = {<<"c","a","t">>}
  /\ call.ret.size = 1

\* C25: two fresh vectorizers fitted on the same corpus hold the same word -> index
\* mapping, the same idf array and the same vector for every document
C25_StableIndices ==
  UnitDone("fit") =>
    /\ call.ret.first.vectorizer.vocabulary = call.ret.second.vectorizer.vocabulary
    /\ call.ret.first.vectorizer.idf = call.ret.second.vectorizer.idf
    /\ call.ret.first.tfidfVectors = call.ret.second.tfidfVectors
\* the non-empty descriptions of the members of cluster c, in member order
IsDescription(text) == text # <<>>
PhraseDescriptions(c) == SelectSeq(Descriptions(c.Problems), IsDescription)
\* the number of descriptions in ds that contain the keyword w
MemberCount(ds, w) == Cardinality(DocsWith(ds, w))
\* the importance of a word: its table value, else 3 if it is longer than 5, else 1;
\* the length is in characters for LengthWeight and in bytes, as line 352 reads it,
\* for ByteWeight
LengthWeight(w) ==
  IF w \in DOMAIN importantWordsSummary THEN importantWordsSummary[w]
  ELSE IF Len(w) > 5 THEN 3 ELSE 1
ByteWeight(w) ==
  IF w \in DOMAIN importantWordsSummary THEN importantWordsSummary[w]
  ELSE IF ByteLen(w) > 5 THEN 3 ELSE 1
\* the words of a returned phrase
PhraseWords == Fields(call.ret)

\* C26: GetClusterSummary(descriptions, N) returns at most N distinct words; the score
\* of a word is the number of descriptions containing it times its importance (table
\* value, else 3 if its length exceeds 5, else 1); the returned words are in
\* non-increasing score order and no keyword left out scores higher than a returned one
C26_Summary ==
  UnitDone("keyphrase") =>
    LET ds == PhraseDescriptions(call.arg.cluster)
        score(w) == MemberCount(ds, w) * LengthWeight(w)
    IN /\ Len(PhraseWords) <= call.arg.maxWords
       /\ \A k, l \in 1..Len(PhraseWords) :
            k < l => /\ PhraseWords[k] # PhraseWords[l]
                     /\ score(PhraseWords[k]) >= score(PhraseWords[l])
       /\ \A k \in 1..Len(PhraseWords) :
            /\ PhraseWords[k] \in KeywordsOf(ds)
            /\ \A w \in KeywordsOf(ds) \ Range(PhraseWords) : score(w) <= score(PhraseWords[k])

====
